---- MODULE Spec2Model ----
(***************************************************************************)
(* projectlint: a static project-metadata linter.                          *)
(*                                                                         *)
(* The repository holds two revisions of the program:                      *)
(*   legacy   src/projectlint.py            (one file, rules take the      *)
(*            project as an argument of active()/check())                  *)
(*   package  src/projectlint/__main__.py + common.py + rules/*.py         *)
(*            (rules are constructed with the project and own a            *)
(*            relevant-file list)                                          *)
(* Both are modelled; the variable revision says which one runs.           *)
(*                                                                         *)
(* Python strings the code takes apart (split, strip, startswith, in) are  *)
(* sequences of one-character strings, so that those operations are        *)
(* computed and not assumed.                                               *)
(***************************************************************************)
EXTENDS Integers, Sequences, FiniteSets, TLC

(***************************************************************************)
(* Bounds of the model.                                                    *)
(***************************************************************************)
MaxMtime == 3
MaxWorkflows == 2
MaxMatrix == 3
MaxSteps == 2
MaxLines == 3

(***************************************************************************)
(* Python str operations on character sequences.                           *)
(***************************************************************************)
Whitespace == {" ", "\n", "\t"}

\* str.startswith(prefix)
StartsWith(s, prefix) ==
    /\ Len(prefix) <= Len(s)
    /\ SubSeq(s, 1, Len(prefix)) = prefix

\* str.endswith(suffix)
EndsWith(s, suffix) ==
    /\ Len(suffix) <= Len(s)
    /\ SubSeq(s, Len(s) - Len(suffix) + 1, Len(s)) = suffix

\* sub in s  (substring test)
Contains(s, sub) ==
    \E i \in 1..(Len(s) - Len(sub) + 1) : SubSeq(s, i, i + Len(sub) - 1) = sub

\* c in s for a single character c
HasChar(s, c) == \E i \in 1..Len(s) : s[i] = c

\* index of the first occurrence of the character c in s, 0 when there is none
FirstIndex(s, c) ==
    IF HasChar(s, c) THEN CHOOSE i \in 1..Len(s) : s[i] = c /\ \A j \in 1..(i - 1) : s[j] # c
    ELSE 0

\* str.split(sep) with a one-character separator: never empty, keeps empty pieces
RECURSIVE Split(_, _)
Split(s, sep) ==
    IF ~HasChar(s, sep) THEN <<s>>
    ELSE LET i == FirstIndex(s, sep)
         IN  <<SubSeq(s, 1, i - 1)>> \o Split(SubSeq(s, i + 1, Len(s)), sep)

\* str.lstrip() / str.rstrip() / str.strip()
RECURSIVE LStrip(_)
LStrip(s) == IF s # <<>> /\ Head(s) \in Whitespace THEN LStrip(Tail(s)) ELSE s

RECURSIVE RStrip(_)
RStrip(s) ==
    IF s # <<>> /\ s[Len(s)] \in Whitespace THEN RStrip(SubSeq(s, 1, Len(s) - 1)) ELSE s

Strip(s) == RStrip(LStrip(s))

\* str.split() without argument: pieces between runs of whitespace, no empty piece
RECURSIVE SplitWS(_)
SplitWS(s) ==
    LET t == LStrip(s)
    IN  IF t = <<>> THEN <<>>
        ELSE LET ws == {i \in 1..Len(t) : t[i] \in Whitespace}
                 e  == IF ws = {} THEN Len(t) + 1
                       ELSE CHOOSE i \in ws : \A j \in ws : i <= j
             IN  <<SubSeq(t, 1, e - 1)>> \o SplitWS(SubSeq(t, e, Len(t)))

\* sep.join(parts)
RECURSIVE Join(_, _)
Join(parts, sep) ==
    IF parts = <<>> THEN <<>>
    ELSE IF Len(parts) = 1 THEN parts[1]
    ELSE parts[1] \o sep \o Join(Tail(parts), sep)

\* the elements of a sequence, as a set
Range(seq) == {seq[i] : i \in 1..Len(seq)}

\* all sequences over S of length lo..hi
SeqsOf(S, lo, hi) == UNION {[1..n -> S] : n \in lo..hi}

\* concatenation of a sequence of sequences
RECURSIVE Flatten(_)
Flatten(ss) == IF ss = <<>> THEN <<>> ELSE Head(ss) \o Flatten(Tail(ss))


(***************************************************************************)
(* String literals of the code and of the documents, as character          *)
(* sequences.                                                              *)
(***************************************************************************)
S_push == <<"p", "u", "s", "h">>
S_pull_request == <<"p", "u", "l", "l", "_", "r", "e", "q", "u", "e", "s", "t">>
S_workflow_dispatch == <<"w", "o", "r", "k", "f", "l", "o", "w", "_", "d", "i", "s", "p", "a", "t", "c", "h">>
S_branches == <<"b", "r", "a", "n", "c", "h", "e", "s">>
S_tags == <<"t", "a", "g", "s">>
S_main == <<"m", "a", "i", "n">>
S_php == <<"p", "h", "p">>
S_php_version == <<"p", "h", "p", "-", "v", "e", "r", "s", "i", "o", "n">>
S_node == <<"n", "o", "d", "e">>
S_os == <<"o", "s">>
S_7 == <<"7">>
S_8_dot_0 == <<"8", ".", "0">>
S_8_dot_1 == <<"8", ".", "1">>
S_8_dot_2 == <<"8", ".", "2">>
S_8_dot_3 == <<"8", ".", "3">>
S_8_dot_4 == <<"8", ".", "4">>
S_7_dot_4 == <<"7", ".", "4">>
S_8_dot_1_dot_2 == <<"8", ".", "1", ".", "2">>
S_8_dot_2_dot_1 == <<"8", ".", "2", ".", "1">>
S_18 == <<"1", "8">>
S_actions_sl_checkout == <<"a", "c", "t", "i", "o", "n", "s", "/", "c", "h", "e", "c", "k", "o", "u", "t">>
S_actions_sl_cache == <<"a", "c", "t", "i", "o", "n", "s", "/", "c", "a", "c", "h", "e">>
S_php_actions_sl_composer == <<"p", "h", "p", "-", "a", "c", "t", "i", "o", "n", "s", "/", "c", "o", "m", "p", "o", "s", "e", "r">>
S_shivammathur_sl_setup_php == <<"s", "h", "i", "v", "a", "m", "m", "a", "t", "h", "u", "r", "/", "s", "e", "t", "u", "p", "-", "p", "h", "p">>
S_actions_sl_setup_node == <<"a", "c", "t", "i", "o", "n", "s", "/", "s", "e", "t", "u", "p", "-", "n", "o", "d", "e">>
S_v2 == <<"v", "2">>
S_v3 == <<"v", "3">>
S_v4 == <<"v", "4">>
S_v6 == <<"v", "6">>
S_FROM_sp == <<"F", "R", "O", "M", " ">>
S_AS == <<"A", "S">>
S_as_lower == <<"a", "s">>
S_RUN == <<"R", "U", "N">>
S_FROM == <<"F", "R", "O", "M">>
S_python == <<"p", "y", "t", "h", "o", "n">>
S_debian == <<"d", "e", "b", "i", "a", "n">>
S_ubuntu == <<"u", "b", "u", "n", "t", "u">>
S_alpine == <<"a", "l", "p", "i", "n", "e">>
S_3_dot_12 == <<"3", ".", "1", "2">>
S_3_dot_12_slim == <<"3", ".", "1", "2", "-", "s", "l", "i", "m">>
S_3_dot_9 == <<"3", ".", "9">>
S_bookworm == <<"b", "o", "o", "k", "w", "o", "r", "m">>
S_stable == <<"s", "t", "a", "b", "l", "e">>
S_24_dot_04 == <<"2", "4", ".", "0", "4">>
S_noble == <<"n", "o", "b", "l", "e">>
S_22_dot_04 == <<"2", "2", ".", "0", "4">>
S_3_dot_19 == <<"3", ".", "1", "9">>
S_builder == <<"b", "u", "i", "l", "d", "e", "r">>
S_BASE == <<"B", "A", "S", "E">>
S_dot_yml == <<".", "y", "m", "l">>
S_None == <<"N", "o", "n", "e">>
S_composer_dot_json == <<"c", "o", "m", "p", "o", "s", "e", "r", ".", "j", "s", "o", "n">>
S_composer_dot_lock == <<"c", "o", "m", "p", "o", "s", "e", "r", ".", "l", "o", "c", "k">>
S_dot_github == <<".", "g", "i", "t", "h", "u", "b">>
S_workflows == <<"w", "o", "r", "k", "f", "l", "o", "w", "s">>
S_jobs == <<"j", "o", "b", "s">>
S_strategy == <<"s", "t", "r", "a", "t", "e", "g", "y">>
S_matrix == <<"m", "a", "t", "r", "i", "x">>
S_steps == <<"s", "t", "e", "p", "s">>
S_uses == <<"u", "s", "e", "s">>
S_run == <<"r", "u", "n">>
S_runs_on == <<"r", "u", "n", "s", "-", "o", "n">>
S_ubuntu_latest == <<"u", "b", "u", "n", "t", "u", "-", "l", "a", "t", "e", "s", "t">>
S_ubuntu_24_dot_04 == <<"u", "b", "u", "n", "t", "u", "-", "2", "4", ".", "0", "4">>
S_require == <<"r", "e", "q", "u", "i", "r", "e">>
S_require_dev == <<"r", "e", "q", "u", "i", "r", "e", "-", "d", "e", "v">>
S_caret_8_dot_2 == <<"^", "8", ".", "2">>
S_caret_8_dot_1 == <<"^", "8", ".", "1">>
S_caret_11_dot_0 == <<"^", "1", "1", ".", "0">>
S_caret_10_dot_0 == <<"^", "1", "0", ".", "0">>
S_caret_1_dot_12 == <<"^", "1", ".", "1", "2">>
S_caret_3_dot_64 == <<"^", "3", ".", "6", "4">>
S_phpunit_sl_phpunit == <<"p", "h", "p", "u", "n", "i", "t", "/", "p", "h", "p", "u", "n", "i", "t">>
S_phpstan_sl_phpstan == <<"p", "h", "p", "s", "t", "a", "n", "/", "p", "h", "p", "s", "t", "a", "n">>
S_friendsofphp_sl_php_cs_fixer == <<"f", "r", "i", "e", "n", "d", "s", "o", "f", "p", "h", "p", "/", "p", "h", "p", "-", "c", "s", "-", "f", "i", "x", "e", "r">>
S_Dockerfile == <<"D", "o", "c", "k", "e", "r", "f", "i", "l", "e">>
S_package_dot_json == <<"p", "a", "c", "k", "a", "g", "e", ".", "j", "s", "o", "n">>
S_node_modules == <<"n", "o", "d", "e", "_", "m", "o", "d", "u", "l", "e", "s">>
S_vendor == <<"v", "e", "n", "d", "o", "r">>
S_target == <<"t", "a", "r", "g", "e", "t">>
S_venv == <<"v", "e", "n", "v">>
S_pycache == <<"_", "_", "p", "y", "c", "a", "c", "h", "e", "_", "_">>
S_dot_git == <<".", "g", "i", "t">>
S_dot_hg == <<".", "h", "g">>
S_dot_sl == <<".", "s", "l">>
S_home == <<"h", "o", "m", "e">>
S_proj == <<"p", "r", "o", "j">>
S_srv == <<"s", "r", "v">>
S_ci_dot_yml == <<"c", "i", ".", "y", "m", "l">>
S_test_dot_yml == <<"t", "e", "s", "t", ".", "y", "m", "l">>
S_notes_dot_txt == <<"n", "o", "t", "e", "s", ".", "t", "x", "t">>
S_test == <<"t", "e", "s", "t">>
S_build == <<"b", "u", "i", "l", "d">>
S_lint == <<"l", "i", "n", "t">>
S_jobs_dot == <<"j", "o", "b", "s", ".">>
S_dot_runs_on == <<".", "r", "u", "n", "s", "-", "o", "n">>
S_dot_strategy_dot_matrix_dot == <<".", "s", "t", "r", "a", "t", "e", "g", "y", ".", "m", "a", "t", "r", "i", "x", ".">>
S_dot_steps_lb == <<".", "s", "t", "e", "p", "s", "[">>
S_rb_dot_uses == <<"]", ".", "u", "s", "e", "s">>
S_require_dev_dot == <<"r", "e", "q", "u", "i", "r", "e", "-", "d", "e", "v", ".">>
S_require_dot_php == <<"r", "e", "q", "u", "i", "r", "e", ".", "p", "h", "p">>
S_0 == <<"0">>
S_1 == <<"1">>
S_2 == <<"2">>
S_3 == <<"3">>
S_vendor_sl_bin_sl_phpunit == <<"v", "e", "n", "d", "o", "r", "/", "b", "i", "n", "/", "p", "h", "p", "u", "n", "i", "t">>
S_composer_sp_install == <<"c", "o", "m", "p", "o", "s", "e", "r", " ", "i", "n", "s", "t", "a", "l", "l">>
S_phpstan == <<"p", "h", "p", "s", "t", "a", "n">>
S_sl == <<"/">>
S_at == <<"@">>
S_comma == <<",">>
S_colon == <<":">>
S_sp == <<" ">>
S_dependencies == <<"d", "e", "p", "e", "n", "d", "e", "n", "c", "i", "e", "s">>
S_devDependencies == <<"d", "e", "v", "D", "e", "p", "e", "n", "d", "e", "n", "c", "i", "e", "s">>
S_react == <<"r", "e", "a", "c", "t">>
S_typescript == <<"t", "y", "p", "e", "s", "c", "r", "i", "p", "t">>
S_caret_18 == <<"^", "1", "8">>
S_caret_5_dot_4 == <<"^", "5", ".", "4">>
S_caret_17 == <<"^", "1", "7">>
S_rules == <<"r", "u", "l", "e", "s">>
M_main == <<"_", "_", "m", "a", "i", "n", "_", "_">>
M_common == <<"p", "r", "o", "j", "e", "c", "t", "l", "i", "n", "t", ".", "c", "o", "m", "m", "o", "n">>
M_php == <<"p", "r", "o", "j", "e", "c", "t", "l", "i", "n", "t", ".", "r", "u", "l", "e", "s", ".", "p", "h", "p">>
M_github == <<"p", "r", "o", "j", "e", "c", "t", "l", "i", "n", "t", ".", "r", "u", "l", "e", "s", ".", "g", "i", "t", "h", "u", "b">>
M_js == <<"p", "r", "o", "j", "e", "c", "t", "l", "i", "n", "t", ".", "r", "u", "l", "e", "s", ".", "j", "s">>
M_docker == <<"p", "r", "o", "j", "e", "c", "t", "l", "i", "n", "t", ".", "r", "u", "l", "e", "s", ".", "d", "o", "c", "k", "e", "r">>
S_docker == <<"d", "o", "c", "k", "e", "r">>
S_app == <<"a", "p", "p">>
S_on == <<"o", "n">>
S_v1 == <<"v", "1">>
S_comma_sp == <<",", " ">>
S_platform == <<"-", "-", "p", "l", "a", "t", "f", "o", "r", "m", "=", "l", "i", "n", "u", "x", "/", "a", "m", "d", "6", "4">>
S_5000_sl_python == <<"5", "0", "0", "0", "/", "p", "y", "t", "h", "o", "n">>
S_localhost == <<"l", "o", "c", "a", "l", "h", "o", "s", "t">>

(***************************************************************************)
(* Python values of the parsed documents: every value is a record          *)
(* [t |-> type tag, v |-> payload].  A dict is the sequence of its items   *)
(* in insertion order, which is the order the code iterates it in.         *)
(***************************************************************************)
PyNone == [t |-> "none", v |-> <<>>]
PyStr(s) == [t |-> "str", v |-> s]
PyFloat(s) == [t |-> "float", v |-> s]
PyBool(b) == [t |-> "bool", v |-> b]
PyList(l) == [t |-> "list", v |-> l]
PyDict(items) == [t |-> "dict", v |-> items]
Item(key, value) == [k |-> key, v |-> value]
EmptyDict == PyDict(<<>>)

\* a == b on Python values (the tags are compared first)
PyEq(a, b) == a.t = b.t /\ a.v = b.v

\* bool(x): None, "", [], {} and False are falsy
Truthy(x) ==
    CASE x.t = "none" -> FALSE
      [] x.t = "bool" -> x.v
      [] OTHER -> x.v # <<>>

\* key in d
DictHas(d, key) == \E i \in 1..Len(d.v) : PyEq(d.v[i].k, key)

\* d[key], for a key that is present
DictAt(d, key) == d.v[CHOOSE i \in 1..Len(d.v) : PyEq(d.v[i].k, key)].v

\* d.get(key, default)
DictGet(d, key, default) == IF DictHas(d, key) THEN DictAt(d, key) ELSE default

\* {k: {} for k in keys}: a later duplicate key keeps the place of the first
RECURSIVE DictFromKeys(_)
DictFromKeys(keys) ==
    IF keys = <<>> THEN <<>>
    ELSE LET rest == DictFromKeys(SubSeq(keys, 1, Len(keys) - 1))
             k == keys[Len(keys)]
         IN  IF \E i \in 1..Len(rest) : PyEq(rest[i].k, k) THEN rest
             ELSE Append(rest, Item(k, EmptyDict))

\* x in container, for a str x: key of a dict, element of a list, substring of a str
PyIn(x, container) ==
    CASE container.t = "dict" -> DictHas(container, x)
      [] container.t = "list" -> \E i \in 1..Len(container.v) : PyEq(container.v[i], x)
      [] container.t = "str" -> Contains(container.v, x.v)


\* str(x) as an f-string renders it
Fmt(x) == IF x.t = "none" THEN S_None ELSE x.v

(***************************************************************************)
(* Finding model: ProjectInfo and its subclasses ProjectError and          *)
(* ProjectWarning.  message is the f-string's template with its            *)
(* interpolated values; file is a path (sequence of parts) or None.        *)
(***************************************************************************)
PyPath(parts) == [t |-> "path", v |-> parts]
Message(fmt, args) == [fmt |-> fmt, args |-> args]

ProjectInfo(message, file, position) ==
    [cls |-> "ProjectInfo", message |-> message, file |-> file, position |-> position]

ProjectError(message, file, position) ==
    [cls |-> "ProjectError", message |-> message, file |-> file, position |-> position]

ProjectWarning(message, file, position) ==
    [cls |-> "ProjectWarning", message |-> message, file |-> file, position |-> position]

\* isinstance(info, cls): ProjectError and ProjectWarning derive from ProjectInfo
isinstance(info, cls) == info.cls = cls \/ cls = "ProjectInfo"

\* the result of a call: what it returned or yielded, and the exception that ended it
Returned(infos) == [infos |-> infos, exc |-> "none"]
Raised(exc) == [infos |-> <<>>, exc |-> exc]

(***************************************************************************)
(* Configuration tables of the rules.                                      *)
(***************************************************************************)
PHP_DEPRECATED == <<S_7, S_8_dot_0, S_8_dot_1>>
PHP_STABLE == <<S_8_dot_2, S_8_dot_3>>
PHP_UNSTABLE == <<S_8_dot_4>>

ACTION_VERSIONS ==
    PyDict(<<Item(PyStr(S_actions_sl_checkout), PyStr(S_v4)),
             Item(PyStr(S_actions_sl_cache), PyStr(S_v4)),
             Item(PyStr(S_php_actions_sl_composer), PyStr(S_v6)),
             Item(PyStr(S_shivammathur_sl_setup_php), PyStr(S_v2))>>)

DEV_TOOLS ==
    PyDict(<<Item(PyStr(S_phpunit_sl_phpunit), PyStr(S_caret_11_dot_0)),
             Item(PyStr(S_phpstan_sl_phpstan), PyStr(S_caret_1_dot_12)),
             Item(PyStr(S_friendsofphp_sl_php_cs_fixer), PyStr(S_caret_3_dot_64))>>)

EXPECTED_IMAGES ==
    PyDict(<<Item(PyStr(S_python), PyList(<<PyStr(S_3_dot_12)>>)),
             Item(PyStr(S_debian), PyList(<<PyStr(S_bookworm), PyStr(S_stable)>>)),
             Item(PyStr(S_ubuntu), PyList(<<PyStr(S_24_dot_04), PyStr(S_noble)>>))>>)

IGNORE_PATHS ==
    <<S_node_modules, S_vendor, S_target, S_venv, S_pycache, S_dot_git, S_dot_hg, S_dot_sl>>

(***************************************************************************)
(* The project on disk.  files lists the entries below the project root    *)
(* in directory order: rel is the path below the root, mtime the           *)
(* modification time, content the parsed document (a dict for YAML and     *)
(* JSON, the list of physical lines for a build file).                     *)
(***************************************************************************)
File(rel, mtime, content) == [rel |-> rel, is_file |-> TRUE, mtime |-> mtime, content |-> content]

\* (project.path / name).exists()
Exists(project, rel) == \E i \in 1..Len(project.files) : project.files[i].rel = rel

\* the entry at project.path / rel, which exists
Entry(project, rel) ==
    project.files[CHOOSE i \in 1..Len(project.files) : project.files[i].rel = rel]

\* Rule.github_workflows in the one-file revision: the .yml files directly in
\* .github/workflows, in directory order; [] when the directory is absent
github_workflows(project) ==
    SelectSeq(project.files,
              LAMBDA f : /\ Len(f.rel) = 3
                         /\ SubSeq(f.rel, 1, 2) = <<S_dot_github, S_workflows>>
                         /\ f.is_file
                         /\ EndsWith(f.rel[3], S_dot_yml))

\* wf.path
WfPath(project, wf) == PyPath(project.path \o wf.rel)

(***************************************************************************)
(* Helpers for the rules' loops.                                           *)
(***************************************************************************)
\* the results of consecutive pieces of work, run in order until one raises
RECURSIVE Chain(_)
Chain(rs) ==
    IF rs = <<>> THEN Returned(<<>>)
    ELSE IF Head(rs).exc # "none" THEN Head(rs)
    ELSE LET rest == Chain(Tail(rs))
         IN  [infos |-> Head(rs).infos \o rest.infos, exc |-> rest.exc]

\* a check that builds a list and returns it: an exception leaves no list
AsList(r) == IF r.exc # "none" THEN Raised(r.exc) ELSE r

\* str(n) for a natural number
Digit(n) == <<"0", "1", "2", "3", "4", "5", "6", "7", "8", "9">>[n + 1]

RECURSIVE IntStr(_)
IntStr(n) == IF n < 10 THEN <<Digit(n)>> ELSE IntStr(n \div 10) \o <<Digit(n % 10)>>

(***************************************************************************)
(* PHPComposerDeps (one-file revision and rules/php.py: same body).        *)
(***************************************************************************)
PHPComposerDeps_active(project) == Exists(project, <<S_composer_dot_json>>)

PHPComposerDeps_require(data, file) ==
    IF ~DictHas(data, PyStr(S_require))
    THEN <<ProjectWarning(Message("No dependencies are required, should at least require php", <<>>),
                          file, PyNone)>>
    ELSE IF ~PyIn(PyStr(S_php), DictAt(data, PyStr(S_require)))
    THEN <<ProjectWarning(Message("PHP should be required", <<>>), file, PyStr(S_require))>>
    ELSE LET php_version == DictAt(DictAt(data, PyStr(S_require)), PyStr(S_php))
         IN  IF ~PyEq(php_version, PyStr(<<"^">> \o PHP_STABLE[1]))
             THEN <<ProjectWarning(Message("should be ^{PHP_STABLE[0]}, is {php_version}",
                                           <<PHP_STABLE[1], Fmt(php_version)>>),
                                   file, PyStr(S_require_dot_php))>>
             ELSE <<>>

PHPComposerDeps_tool(data, file, tool, stable) ==
    IF ~PyIn(tool, DictAt(data, PyStr(S_require_dev)))
    THEN <<ProjectWarning(Message("{tool} should be required", <<tool.v>>),
                          file, PyStr(S_require_dev))>>
    ELSE LET version == DictAt(DictAt(data, PyStr(S_require_dev)), tool)
         IN  IF ~PyEq(version, stable)
             THEN <<ProjectWarning(Message("should be {stable}, is {version}",
                                           <<stable.v, Fmt(version)>>),
                                   file, PyStr(S_require_dev_dot \o tool.v))>>
             ELSE <<>>

PHPComposerDeps_check(project) ==
    LET file == PyPath(project.path \o <<S_composer_dot_json>>)
        data == Entry(project, <<S_composer_dot_json>>).content
        dev  == IF ~DictHas(data, PyStr(S_require_dev))
                THEN <<ProjectWarning(
                         Message("No dev dependencies are required, should at least require phpunit", <<>>),
                         file, PyNone)>>
                ELSE Flatten([i \in 1..Len(DEV_TOOLS.v) |->
                         PHPComposerDeps_tool(data, file, DEV_TOOLS.v[i].k, DEV_TOOLS.v[i].v)])
    IN  Returned(PHPComposerDeps_require(data, file) \o dev)

(***************************************************************************)
(* PHPComposerLock                                                         *)
(***************************************************************************)
PHPComposerLock_active(project) == Exists(project, <<S_composer_dot_lock>>)

\* the comparison with >= in place of >
LockOutOfDate_ge(json_modified, lock_modified) == json_modified >= lock_modified

\* json_modified > lock_modified
LockOutOfDate(json_modified, lock_modified) == json_modified > lock_modified

PHPComposerLock_check(project) ==
    IF ~Exists(project, <<S_composer_dot_json>>) \/ ~Exists(project, <<S_composer_dot_lock>>)
    THEN Raised("FileNotFoundError")      \* Path.stat() of a missing file
    ELSE LET json_modified == Entry(project, <<S_composer_dot_json>>).mtime
             lock_modified == Entry(project, <<S_composer_dot_lock>>).mtime
         IN  IF LockOutOfDate(json_modified, lock_modified)
             THEN Returned(<<ProjectError(Message("composer.lock is out of date", <<>>),
                                          PyPath(project.path \o <<S_composer_dot_lock>>),
                                          PyNone)>>)
             ELSE Returned(<<>>)

(***************************************************************************)
(* GithubActionsOn                                                         *)
(***************************************************************************)
github_active(project) == Len(github_workflows(project)) # 0

\* the conversion without x.strip()
NormaliseOn_nostrip(on) ==
    CASE on.t = "str" ->
           LET parts == Split(on.v, ",")
           IN  Returned(PyDict(DictFromKeys([i \in 1..Len(parts) |-> PyStr(parts[i])])))
      [] on.t = "list" ->
           Returned(PyDict(DictFromKeys([i \in 1..Len(on.v) |-> PyStr(on.v[i].v)])))
      [] OTHER -> Returned(on)

\* lines 22-27 (168-173): a string or a list of event names becomes a dict
NormaliseOn(on) ==
    CASE on.t = "str" ->
           LET parts == Split(on.v, ",")
           IN  Returned(PyDict(DictFromKeys([i \in 1..Len(parts) |-> PyStr(Strip(parts[i]))])))
      [] on.t = "list" ->
           IF \E i \in 1..Len(on.v) : on.v[i].t # "str"
           THEN Raised("AttributeError")     \* x.strip() of a non-string
           ELSE Returned(PyDict(DictFromKeys([i \in 1..Len(on.v) |-> PyStr(Strip(on.v[i].v))])))
      [] OTHER -> Returned(on)

\* lines 29-30 (175-176) on the normalised triggers
OnOverlap(on) ==
    /\ PyIn(PyStr(S_push), on)
    /\ PyIn(PyStr(S_pull_request), on)
    /\ \/ ~Truthy(DictAt(on, PyStr(S_push)))
       \/ ~PyIn(PyStr(S_branches), DictAt(on, PyStr(S_push)))

GithubActionsOn_workflow(project, wf) ==
    LET on == DictGet(wf.content, PyBool(TRUE), PyNone)   \* yaml treats 'on' as a boolean
    IN  IF ~Truthy(on) THEN Returned(<<>>)
        ELSE LET n == NormaliseOn(on)
             IN  IF n.exc # "none" THEN Raised(n.exc)
                 ELSE IF OnOverlap(n.infos)
                 THEN Returned(<<ProjectError(
                        Message("If an action is triggered by both push and pull_request, it should have a 'branches' filter to avoid running twice", <<>>),
                        WfPath(project, wf), PyNone)>>)
                 ELSE Returned(<<>>)

GithubActionsOn_check(project) ==
    LET wfs == github_workflows(project)
    IN  AsList(Chain([i \in 1..Len(wfs) |-> GithubActionsOn_workflow(project, wfs[i])]))

(***************************************************************************)
(* GithubActionsRunsOn                                                     *)
(***************************************************************************)
Jobs(wf) == DictGet(wf.content, PyStr(S_jobs), EmptyDict).v

GithubActionsRunsOn_job(project, wf, name, job) ==
    IF PyEq(DictGet(job, PyStr(S_runs_on), PyNone), PyStr(S_ubuntu_latest))
    THEN <<ProjectWarning(Message("ubuntu-latest is not recommended, use ubuntu-24.04", <<>>),
                          WfPath(project, wf), PyStr(S_jobs_dot \o name.v \o S_dot_runs_on))>>
    ELSE <<>>

GithubActionsRunsOn_check(project) ==
    LET wfs == github_workflows(project)
    IN  Returned(Flatten([i \in 1..Len(wfs) |->
            Flatten([j \in 1..Len(Jobs(wfs[i])) |->
                GithubActionsRunsOn_job(project, wfs[i], Jobs(wfs[i])[j].k, Jobs(wfs[i])[j].v)])]))

(***************************************************************************)
(* GithubActionsPHPVersions                                                *)
(***************************************************************************)
\* the test taken as true of every non-empty list
AnyStarts8_always(versions) == IF versions = <<>> THEN "False" ELSE "True"

\* any(version[0] == "8" for version in versions), evaluated left to right:
\* "True", "False", or the exception a non-string or empty entry raises first
RECURSIVE AnyStarts8(_)
AnyStarts8(versions) ==
    IF versions = <<>> THEN "False"
    ELSE IF Head(versions).t # "str" THEN "TypeError"
    ELSE IF Head(versions).v = <<>> THEN "IndexError"
    ELSE IF Head(versions).v[1] = "8" THEN "True"
    ELSE AnyStarts8(Tail(versions))

\* the deprecated versions compared with == in place of startswith
DeprecatedFindings_exact(versions, file, position) ==
    Flatten([d \in 1..Len(PHP_DEPRECATED) |->
        Flatten([i \in 1..Len(versions) |->
            IF versions[i].v = PHP_DEPRECATED[d]
            THEN <<ProjectError(Message("PHP {version} is deprecated", <<versions[i].v>>),
                                file, position)>>
            ELSE <<>>])])

\* lines 85-94 (231-240): for deprecated in PHP_DEPRECATED: for version in versions
DeprecatedFindings(versions, file, position) ==
    Flatten([d \in 1..Len(PHP_DEPRECATED) |->
        Flatten([i \in 1..Len(versions) |->
            IF StartsWith(versions[i].v, PHP_DEPRECATED[d])
            THEN <<ProjectError(Message("PHP {version} is deprecated", <<versions[i].v>>),
                                file, position)>>
            ELSE <<>>])])

\* lines 95-103 (241-249)
StableFindings(versions, file, position) ==
    Flatten([s \in 1..Len(PHP_STABLE) |->
        IF ~PyIn(PyStr(PHP_STABLE[s]), PyList(versions))
        THEN <<ProjectError(Message("PHP {stable} is not tested", <<PHP_STABLE[s]>>),
                            file, position)>>
        ELSE <<>>])

\* lines 104-112 (250-258)
UnstableFindings(versions, file, position) ==
    Flatten([u \in 1..Len(PHP_UNSTABLE) |->
        IF ~PyIn(PyStr(PHP_UNSTABLE[u]), PyList(versions))
        THEN <<ProjectInfo(Message("PHP {unstable} is not tested", <<PHP_UNSTABLE[u]>>),
                           file, position)>>
        ELSE <<>>])

\* lines 81-112 (227-258): one key of one job's strategy.matrix
PHPVersions_axis(key, versions, file, position) ==
    IF ~StartsWith(key.v, S_php) THEN Returned(<<>>)
    ELSE LET looks == AnyStarts8(versions)
         IN  CASE looks = "False" -> Returned(<<>>)
               [] looks \in {"TypeError", "IndexError"} -> Raised(looks)
               [] looks = "True" ->
                    IF \E i \in 1..Len(versions) : versions[i].t # "str"
                    THEN Raised("AttributeError")   \* version.startswith of a non-string
                    ELSE Returned(DeprecatedFindings(versions, file, position)
                                  \o StableFindings(versions, file, position)
                                  \o UnstableFindings(versions, file, position))

Matrix(job) == DictGet(DictGet(job, PyStr(S_strategy), EmptyDict), PyStr(S_matrix), EmptyDict).v

GithubActionsPHPVersions_job(project, wf, name, job) ==
    Chain([k \in 1..Len(Matrix(job)) |->
        PHPVersions_axis(Matrix(job)[k].k, Matrix(job)[k].v.v, WfPath(project, wf),
                         PyStr(S_jobs_dot \o name.v \o S_dot_strategy_dot_matrix_dot
                               \o Matrix(job)[k].k.v))])

GithubActionsPHPVersions_workflow(project, wf) ==
    Chain([j \in 1..Len(Jobs(wf)) |->
        GithubActionsPHPVersions_job(project, wf, Jobs(wf)[j].k, Jobs(wf)[j].v)])

GithubActionsPHPVersions_check(project) ==
    LET wfs == github_workflows(project)
    IN  AsList(Chain([i \in 1..Len(wfs) |-> GithubActionsPHPVersions_workflow(project, wfs[i])]))

(***************************************************************************)
(* GithubActionsActionVersions                                             *)
(***************************************************************************)
Steps(job) == DictGet(job, PyStr(S_steps), PyList(<<>>)).v

\* a reference without a tag taken as pinned
Pinned_lax(version, expected) == version.t = "none" \/ PyEq(version, expected)

\* line 141 (287): version != ACTION_VERSIONS[action], negated
Pinned(version, expected) == PyEq(version, expected)

\* lines 134-148 (280-294): one step; step_n counts from 0
ActionVersions_step(step, file, job_name, step_n) ==
    IF ~DictHas(step, PyStr(S_uses)) THEN Returned(<<>>)
    ELSE LET uses  == DictAt(step, PyStr(S_uses)).v
             parts == Split(uses, "@")
         IN  IF HasChar(uses, "@") /\ Len(parts) # 2
             THEN Raised("ValueError")     \* action, version = ... unpacks two values
             ELSE LET action  == PyStr(IF HasChar(uses, "@") THEN parts[1] ELSE uses)
                      version == IF HasChar(uses, "@") THEN PyStr(parts[2]) ELSE PyNone
                  IN  IF DictHas(ACTION_VERSIONS, action)
                         /\ ~Pinned(version, DictAt(ACTION_VERSIONS, action))
                      THEN Returned(<<ProjectError(
                             Message("{action} should be {ACTION_VERSIONS[action]}, is {version}",
                                     <<action.v, DictAt(ACTION_VERSIONS, action).v, Fmt(version)>>),
                             file,
                             PyStr(S_jobs_dot \o job_name.v \o S_dot_steps_lb
                                   \o IntStr(step_n) \o S_rb_dot_uses))>>)
                      ELSE Returned(<<>>)

GithubActionsActionVersions_job(project, wf, job_name, job) ==
    Chain([n \in 1..Len(Steps(job)) |->
        ActionVersions_step(Steps(job)[n], WfPath(project, wf), job_name, n - 1)])

GithubActionsActionVersions_workflow(project, wf) ==
    Chain([j \in 1..Len(Jobs(wf)) |->
        GithubActionsActionVersions_job(project, wf, Jobs(wf)[j].k, Jobs(wf)[j].v)])

GithubActionsActionVersions_check(project) ==
    LET wfs == github_workflows(project)
    IN  AsList(Chain([i \in 1..Len(wfs) |->
            GithubActionsActionVersions_workflow(project, wfs[i])]))

(***************************************************************************)
(* GithubActionsVendoredPHPTools                                           *)
(***************************************************************************)
GithubActionsVendoredPHPTools_active(project) ==
    github_active(project) /\ Exists(project, <<S_composer_dot_json>>)

\* tool.split("/")[-1]
Binary(tool) == LET parts == Split(tool, "/") IN parts[Len(parts)]

\* only the first workflow is searched
ToolUsed_first_workflow(project, binary) ==
    /\ github_workflows(project) # <<>>
    /\ LET wf == github_workflows(project)[1]
       IN  \E j \in 1..Len(Jobs(wf)) : \E n \in 1..Len(Steps(Jobs(wf)[j].v)) :
               LET step == Steps(Jobs(wf)[j].v)[n]
               IN  /\ DictHas(step, PyStr(S_run))
                   /\ PyIn(PyStr(binary), DictAt(step, PyStr(S_run)))

\* lines 167-175 (313-321): some step of some job of some workflow runs the binary
ToolUsed(project, binary) ==
    \E i \in 1..Len(github_workflows(project)) :
        LET wf == github_workflows(project)[i]
        IN  \E j \in 1..Len(Jobs(wf)) : \E n \in 1..Len(Steps(Jobs(wf)[j].v)) :
                LET step == Steps(Jobs(wf)[j].v)[n]
                IN  /\ DictHas(step, PyStr(S_run))
                    /\ PyIn(PyStr(binary), DictAt(step, PyStr(S_run)))

GithubActionsVendoredPHPTools_check(project) ==
    LET composer_data == Entry(project, <<S_composer_dot_json>>).content
        vendored_tools == DictGet(composer_data, PyStr(S_require_dev), EmptyDict).v
    IN  Returned(Flatten([t \in 1..Len(vendored_tools) |->
            LET tool == vendored_tools[t].k.v
            IN  IF ~ToolUsed(project, Binary(tool))
                THEN <<ProjectWarning(
                         Message("{binary} is vendored but not used in a workflow", <<Binary(tool)>>),
                         PyPath(project.path \o <<S_composer_dot_json>>),
                         PyStr(S_require_dev_dot \o tool))>>
                ELSE <<>>]))

(***************************************************************************)
(* Rule base class of the package revision (common.py).                    *)
(***************************************************************************)
\* project.path.rglob(pattern) for a pattern that is a plain file name: every
\* entry below the root, at any depth, whose name is the pattern, in directory order
rglob(project, pattern) ==
    LET hits == SelectSeq(project.files, LAMBDA f : f.rel[Len(f.rel)] = pattern)
    IN  [i \in 1..Len(hits) |-> project.path \o hits[i].rel]

\* only the directory that holds the file is looked at
Ignored_parent(parts) == Len(parts) > 1 /\ parts[Len(parts) - 1] \in Range(IGNORE_PATHS)

\* any(p.parts[i] in IGNORE_PATHS for i in range(len(p.parts)))
Ignored(parts) == \E i \in 1..Len(parts) : parts[i] \in Range(IGNORE_PATHS)

\* Rule.find_files
find_files(project, pattern) == SelectSeq(rglob(project, pattern), LAMBDA p : ~Ignored(p))

\* Rule.__init__: relevant_paths collects find_files of each pattern in turn
relevant_paths_of(project, patterns) ==
    Flatten([i \in 1..Len(patterns) |-> find_files(project, patterns[i])])

\* Rule.active
Rule_active(rule) == rule.relevant_paths # <<>>

\* the entry of the project a discovered path names
EntryAt(project, path) ==
    project.files[CHOOSE i \in 1..Len(project.files) : project.path \o project.files[i].rel = path]

(***************************************************************************)
(* DockerBaseImages.check_file (rules/docker.py).                          *)
(***************************************************************************)
\* any(ver.startswith(v) for v in EXPECTED_IMAGES[pkg])
TagAccepted(pkg, ver) ==
    \E i \in 1..Len(DictAt(EXPECTED_IMAGES, pkg).v) :
        StartsWith(ver, DictAt(EXPECTED_IMAGES, pkg).v[i].v)

\* lines 20-24: the stage names known once this line's AS clause has been read
TagsAfterLine(line, internal_tags) ==
    IF Contains(line, S_AS) THEN Append(internal_tags, Strip(Split(line, " ")[4]))
    ELSE internal_tags

\* lines 26-42: the findings of a FROM line whose image is known
ImageFindings(image, tags, file) ==
    IF ~HasChar(image, ":")
    THEN IF image \in Range(tags) THEN Returned(<<>>)
         ELSE Returned(<<ProjectError(
                Message("Image should have a tag, is {image} ({internal_tags})", <<image>> \o tags),
                file, PyNone)>>)
    ELSE LET parts == Split(image, ":")
         IN  IF Len(parts) # 2 THEN Raised("ValueError")   \* pkg, ver = ... unpacks two values
             ELSE IF DictHas(EXPECTED_IMAGES, PyStr(parts[1]))
                     /\ ~TagAccepted(PyStr(parts[1]), parts[2])
             THEN Returned(<<ProjectError(
                    Message("{pkg} should be {self.EXPECTED_IMAGES[pkg]}, is {ver}",
                            <<parts[1], parts[2]>>),
                    file, PyNone)>>)
             ELSE Returned(<<>>)

\* the body of the loop of lines 19-42 for one physical line: the stage names
\* afterwards, the findings yielded, the exception raised
check_line(line, internal_tags, file) ==
    IF ~StartsWith(line, S_FROM_sp)
    THEN [tags |-> internal_tags, infos |-> <<>>, exc |-> "none"]
    ELSE IF Len(SplitWS(line)) < 2          \* line.split()[1]
    THEN [tags |-> internal_tags, infos |-> <<>>, exc |-> "IndexError"]
    ELSE IF Contains(line, S_AS) /\ Len(Split(line, " ")) < 4   \* line.split(" ")[3]
    THEN [tags |-> internal_tags, infos |-> <<>>, exc |-> "IndexError"]
    ELSE LET image == SplitWS(line)[2]
             tags  == TagsAfterLine(line, internal_tags)
             r     == ImageFindings(image, tags, file)
         IN  [tags |-> tags, infos |-> r.infos, exc |-> r.exc]

\* check_file: the lines in order, internal_tags starting empty, until one raises
RECURSIVE check_lines(_, _, _)
check_lines(lines, internal_tags, file) ==
    IF lines = <<>> THEN Returned(<<>>)
    ELSE LET r == check_line(Head(lines), internal_tags, file)
         IN  IF r.exc # "none" THEN [infos |-> r.infos, exc |-> r.exc]
             ELSE LET rest == check_lines(Tail(lines), r.tags, file)
                  IN  [infos |-> r.infos \o rest.infos, exc |-> rest.exc]

DockerBaseImages_check_file(project, path) ==
    check_lines(EntryAt(project, path).content, <<>>, PyPath(path))

(***************************************************************************)
(* JSPackageDeps.check_file (rules/js.py).                                 *)
(***************************************************************************)
EXPECTED_PACKAGES ==
    PyDict(<<Item(PyStr(S_react), PyStr(S_caret_18)),
             Item(PyStr(S_typescript), PyStr(S_caret_5_dot_4))>>)

\* {**a, **b}: the items of a, a value replaced by b's when b has the key,
\* then the items of b whose key a lacks
DictMerge(a, b) ==
    PyDict([i \in 1..Len(a.v) |-> Item(a.v[i].k, DictGet(b, a.v[i].k, a.v[i].v))]
           \o SelectSeq(b.v, LAMBDA it : ~DictHas(a, it.k)))

JSPackageDeps_check_file(project, path) ==
    LET data == EntryAt(project, path).content
        deps == DictMerge(DictGet(data, PyStr(S_dependencies), EmptyDict),
                          DictGet(data, PyStr(S_devDependencies), EmptyDict))
    IN  Returned(Flatten([i \in 1..Len(EXPECTED_PACKAGES.v) |->
            LET package == EXPECTED_PACKAGES.v[i].k
                expected_version == EXPECTED_PACKAGES.v[i].v
            IN  IF DictHas(deps, package)
                   /\ ~StartsWith(DictAt(deps, package).v, expected_version.v)
                THEN <<ProjectWarning(
                         Message("{package} should be {expected_version}, is {deps[package]}",
                                 <<package.v, expected_version.v, DictAt(deps, package).v>>),
                         PyPath(path), PyNone)>>
                ELSE <<>>]))

(***************************************************************************)
(* Rule classes, in the order the interpreter defines them.                *)
(*   params_active / params_check: the parameters active() and check()     *)
(*   take besides self, as the class (or the base it inherits from)        *)
(*   declares them.                                                        *)
(***************************************************************************)
Class(name, base, module, patterns, params_active, params_check, file_rule) ==
    [name |-> name, base |-> base, module |-> module, patterns |-> patterns,
     params_active |-> params_active, params_check |-> params_check, file_rule |-> file_rule]

\* src/projectlint.py: every rule derives from Rule directly
LegacyClasses ==
    <<Class("PHPComposerDeps", "Rule", M_main, <<>>, 1, 1, FALSE),
      Class("PHPComposerLock", "Rule", M_main, <<>>, 1, 1, FALSE),
      Class("GithubActionsOn", "Rule", M_main, <<>>, 1, 1, FALSE),
      Class("GithubActionsRunsOn", "Rule", M_main, <<>>, 1, 1, FALSE),
      Class("GithubActionsPHPVersions", "Rule", M_main, <<>>, 1, 1, FALSE),
      Class("GithubActionsActionVersions", "Rule", M_main, <<>>, 1, 1, FALSE),
      Class("GithubActionsVendoredPHPTools", "Rule", M_main, <<>>, 1, 1, FALSE)>>

\* src/projectlint/: common.py first, then rules/github.py (which imports
\* rules/php.py before defining its own classes), rules/js.py, rules/docker.py
PackageClasses ==
    <<Class("FileRule", "Rule", M_common, <<>>, 0, 0, TRUE),
      Class("PHPComposerDeps", "Rule", M_php, <<>>, 1, 1, FALSE),
      Class("PHPComposerLock", "Rule", M_php, <<>>, 1, 1, FALSE),
      Class("GithubActionsOn", "Rule", M_github, <<>>, 1, 1, FALSE),
      Class("GithubActionsRunsOn", "Rule", M_github, <<>>, 1, 1, FALSE),
      Class("GithubActionsPHPVersions", "Rule", M_github, <<>>, 1, 1, FALSE),
      Class("GithubActionsActionVersions", "Rule", M_github, <<>>, 1, 1, FALSE),
      Class("GithubActionsVendoredPHPTools", "Rule", M_github, <<>>, 1, 1, FALSE),
      Class("JSPackageDeps", "FileRule", M_js, <<S_package_dot_json>>, 0, 0, TRUE),
      Class("DockerBaseImages", "FileRule", M_docker, <<S_Dockerfile>>, 0, 0, TRUE)>>

\* cls.__subclasses__(): the direct subclasses, in definition order
subclasses(classes, cls) == SelectSeq(classes, LAMBDA c : c.base = cls)

\* get_subclasses: the direct subclasses, then the subclasses of each of them
RECURSIVE get_subclasses(_, _)
get_subclasses(classes, cls) ==
    LET direct == subclasses(classes, cls)
    IN  direct \o Flatten([i \in 1..Len(direct) |-> get_subclasses(classes, direct[i].name)])

\* get_rules: the subclasses of Rule whose module name contains "rules"
get_rules == SelectSeq(get_subclasses(PackageClasses, "Rule"),
                       LAMBDA r : Contains(r.module, S_rules))

\* the rule instances main() builds: r() in the one-file revision, r(project)
\* (Rule.__init__) in the package
Instances(revision, project) ==
    IF revision = "legacy"
    THEN [i \in 1..Len(subclasses(LegacyClasses, "Rule")) |->
            [cls |-> subclasses(LegacyClasses, "Rule")[i], relevant_paths |-> <<>>]]
    ELSE [i \in 1..Len(get_rules) |->
            [cls |-> get_rules[i],
             relevant_paths |-> relevant_paths_of(project, get_rules[i].patterns)]]

\* the active method of a rule, given the project
ActiveBody(rule, project) ==
    CASE rule.cls.name = "PHPComposerDeps" -> PHPComposerDeps_active(project)
      [] rule.cls.name = "PHPComposerLock" -> PHPComposerLock_active(project)
      [] rule.cls.name \in {"GithubActionsOn", "GithubActionsRunsOn",
                            "GithubActionsPHPVersions", "GithubActionsActionVersions"}
           -> github_active(project)
      [] rule.cls.name = "GithubActionsVendoredPHPTools"
           -> GithubActionsVendoredPHPTools_active(project)
      [] OTHER -> Rule_active(rule)

\* FileRule.check: check_file of each relevant path in turn
FileRule_check(rule, project) ==
    Chain([i \in 1..Len(rule.relevant_paths) |->
        IF rule.cls.name = "DockerBaseImages"
        THEN DockerBaseImages_check_file(project, rule.relevant_paths[i])
        ELSE JSPackageDeps_check_file(project, rule.relevant_paths[i])])

\* the check method of a rule, given the project
CheckBody(rule, project) ==
    CASE rule.cls.name = "PHPComposerDeps" -> PHPComposerDeps_check(project)
      [] rule.cls.name = "PHPComposerLock" -> PHPComposerLock_check(project)
      [] rule.cls.name = "GithubActionsOn" -> GithubActionsOn_check(project)
      [] rule.cls.name = "GithubActionsRunsOn" -> GithubActionsRunsOn_check(project)
      [] rule.cls.name = "GithubActionsPHPVersions" -> GithubActionsPHPVersions_check(project)
      [] rule.cls.name = "GithubActionsActionVersions" -> GithubActionsActionVersions_check(project)
      [] rule.cls.name = "GithubActionsVendoredPHPTools"
           -> GithubActionsVendoredPHPTools_check(project)
      [] OTHER -> FileRule_check(rule, project)

\* the arguments main() passes besides the rule itself: active(project) and
\* check(project) in the one-file revision, active() and check() in the package
ArgsPassed(revision) == IF revision = "legacy" THEN 1 ELSE 0

\* rule.active(...) as main() calls it: "True", "False", or the TypeError of a
\* call whose arguments do not fit the method's parameters
CallActiveResult(revision, rule, project) ==
    IF rule.cls.params_active # ArgsPassed(revision) THEN "TypeError"
    ELSE IF ActiveBody(rule, project) THEN "True" ELSE "False"

\* rule.check(...) as main() calls it
CallCheckResult(revision, rule, project) ==
    IF rule.cls.params_check # ArgsPassed(revision) THEN Raised("TypeError")
    ELSE CheckBody(rule, project)

\* lines 56-62 (362-368): the severity word main() prints for a finding
Prefix(info) ==
    IF isinstance(info, "ProjectError") THEN "Error"
    ELSE IF isinstance(info, "ProjectWarning") THEN "Warning"
    ELSE "Info"

\* the flag takes the last finding's severity instead of accumulating
NextFail_overwrite(flag, info) == isinstance(info, "ProjectError")

\* lines 56-58 (362-364): the fail flag after a finding
NextFail(flag, info) == flag \/ isinstance(info, "ProjectError")

\* line 64 (370)
ExitCode(flag) == IF flag THEN 1 ELSE 0

(***************************************************************************)
(* State.                                                                  *)
(*   revision      which revision of the program runs                      *)
(*   given         the parameters the project on disk was built from       *)
(*   project       Project: path and the files below it                    *)
(*   pc            position in main(), or in the rule under test           *)
(*   rules         the rule instances of main(), in order                  *)
(*   idx           index of the rule the loop of main() is at              *)
(*   pending       findings of the running check not yet handed to main()  *)
(*   pending_exc   exception the running check raises after them           *)
(*   fail          main()'s fail flag                                      *)
(*   output        the lines printed so far                                *)
(*   actives       the calls of active() so far, with their outcome        *)
(*   checks        the calls of check() so far, with their outcome         *)
(*   exit_code     what main() returned (-1: has not returned)             *)
(*   exc           the exception that left main() ("none": none)           *)
(*   fileno, lineno, internal_tags, yielded                                *)
(*                 DockerBaseImages.check(): the relevant path and the     *)
(*                 line being read, check_file's list of stage names, and  *)
(*                 the findings yielded so far with the place of each      *)
(*   run           which run of the program on the project this is         *)
(*   previous      what the earlier runs printed and how they ended        *)
(***************************************************************************)
VARIABLES revision, given, project, pc, rules, idx, pending, pending_exc, fail,
          output, actives, checks, exit_code, exc,
          fileno, lineno, internal_tags, yielded,
          run, previous

vars == <<revision, given, project, pc, rules, idx, pending, pending_exc, fail,
          output, actives, checks, exit_code, exc,
          fileno, lineno, internal_tags, yielded,
          run, previous>>

runner_vars == <<rules, idx, pending, pending_exc, fail, output, actives, checks, exit_code, exc>>
docker_vars == <<fileno, lineno, internal_tags, yielded>>
rerun_vars == <<run, previous>>

Revisions == {"legacy", "package"}

(***************************************************************************)
(* Documents the projects are built from.                                  *)
(***************************************************************************)
Root == <<S_home, S_proj>>

Str1(s) == PyList(<<PyStr(s)>>)

ComposerGood ==
    PyDict(<<Item(PyStr(S_require), PyDict(<<Item(PyStr(S_php), PyStr(S_caret_8_dot_2))>>)),
             Item(PyStr(S_require_dev),
                  PyDict(<<Item(PyStr(S_phpunit_sl_phpunit), PyStr(S_caret_11_dot_0)),
                           Item(PyStr(S_phpstan_sl_phpstan), PyStr(S_caret_1_dot_12)),
                           Item(PyStr(S_friendsofphp_sl_php_cs_fixer), PyStr(S_caret_3_dot_64))>>))>>)

ComposerBare == EmptyDict

ComposerDocs == {ComposerGood, ComposerBare}

Step_uses(ref) == PyDict(<<Item(PyStr(S_uses), PyStr(ref))>>)
Step_run(cmd) == PyDict(<<Item(PyStr(S_run), PyStr(cmd))>>)

\* a workflow of one job
Workflow(on_items, name, job_items) ==
    PyDict(on_items \o <<Item(PyStr(S_jobs), PyDict(<<Item(PyStr(name), PyDict(job_items))>>))>>)

MatrixItem(key, versions) ==
    Item(PyStr(S_strategy),
         PyDict(<<Item(PyStr(S_matrix), PyDict(<<Item(PyStr(key), PyList(versions))>>))>>))

\* on: [push, pull_request]; ubuntu-latest; php: ["7.4", "8.2", "8.3"]; checkout@v3
WfOverlap ==
    Workflow(<<Item(PyBool(TRUE), PyList(<<PyStr(S_push), PyStr(S_pull_request)>>))>>,
             S_test,
             <<Item(PyStr(S_runs_on), PyStr(S_ubuntu_latest)),
               MatrixItem(S_php, <<PyStr(S_7_dot_4), PyStr(S_8_dot_2), PyStr(S_8_dot_3)>>),
               Item(PyStr(S_steps), PyList(<<Step_uses(S_actions_sl_checkout \o S_at \o S_v3),
                                             Step_run(S_composer_sp_install)>>))>>)

\* on: {push: {branches: [main]}, pull_request: {}}; ubuntu-24.04; checkout@v4; phpunit
WfClean ==
    Workflow(<<Item(PyBool(TRUE),
                    PyDict(<<Item(PyStr(S_push), PyDict(<<Item(PyStr(S_branches), Str1(S_main))>>)),
                             Item(PyStr(S_pull_request), EmptyDict)>>))>>,
             S_build,
             <<Item(PyStr(S_runs_on), PyStr(S_ubuntu_24_dot_04)),
               Item(PyStr(S_steps), PyList(<<Step_uses(S_actions_sl_checkout \o S_at \o S_v4),
                                             Step_run(S_vendor_sl_bin_sl_phpunit)>>))>>)

\* on: push; ubuntu-latest; php: [8.2, 8.3] written without quotes, so floats
WfFloat ==
    Workflow(<<Item(PyBool(TRUE), PyStr(S_push))>>,
             S_lint,
             <<Item(PyStr(S_runs_on), PyStr(S_ubuntu_latest)),
               MatrixItem(S_php, <<PyFloat(S_8_dot_2), PyFloat(S_8_dot_3)>>)>>)

WorkflowDocs == {WfOverlap, WfClean, WfFloat}

\* the i-th workflow file is .github/workflows/<i>.yml
WorkflowFiles(docs) ==
    [i \in 1..Len(docs) |->
        File(<<S_dot_github, S_workflows, IntStr(i) \o S_dot_yml>>, 0, docs[i])]

DockerLineOf(words) == Join(words, S_sp) \o <<"\n">>

\* files besides the manifests and the workflows
ExtraTrees ==
    { <<>>,
      <<File(<<S_Dockerfile>>, 0, <<DockerLineOf(<<S_FROM, S_python \o S_colon \o S_3_dot_9>>)>>)>>,
      <<File(<<S_dot_github, S_workflows, S_notes_dot_txt>>, 0, PyNone),
        File(<<S_vendor, S_app, S_Dockerfile>>, 0, <<DockerLineOf(<<S_FROM, S_alpine>>)>>),
        File(<<S_package_dot_json>>, 0,
             PyDict(<<Item(PyStr(S_dependencies),
                           PyDict(<<Item(PyStr(S_react), PyStr(S_caret_17))>>))>>))>> }

NoFile == [present |-> FALSE, mtime |-> 0, content |-> PyNone]
SomeFile(mtime, content) == [present |-> TRUE, mtime |-> mtime, content |-> content]

\* the project a choice of manifest, lockfile, workflows and other files gives
MkProject(root, composer, lock, docs, extra) ==
    [path |-> root,
     files |-> (IF composer.present
                THEN <<File(<<S_composer_dot_json>>, composer.mtime, composer.content)>>
                ELSE <<>>)
            \o (IF lock.present
                THEN <<File(<<S_composer_dot_lock>>, lock.mtime, PyNone)>>
                ELSE <<>>)
            \o WorkflowFiles(docs)
            \o extra]

Givens ==
    [kind : {"project"},
     composer : {NoFile} \cup {SomeFile(m, c) : m \in 0..MaxMtime, c \in ComposerDocs},
     lock : {NoFile} \cup {SomeFile(m, PyNone) : m \in 0..MaxMtime},
     docs : SeqsOf(WorkflowDocs, 0, MaxWorkflows),
     extra : ExtraTrees]

(***************************************************************************)
(* main()                                                                  *)
(***************************************************************************)
StartOfMain ==
    /\ pc = "start"
    /\ rules = <<>> /\ idx = 0
    /\ pending = <<>> /\ pending_exc = "none"
    /\ fail = FALSE /\ output = <<>>
    /\ actives = <<>> /\ checks = <<>>
    /\ exit_code = -1 /\ exc = "none"
    /\ fileno = 0 /\ lineno = 0 /\ internal_tags = <<>> /\ yielded = <<>>
    /\ run = 1 /\ previous = <<>>

Init ==
    /\ revision \in Revisions
    /\ given \in Givens
    /\ project = MkProject(Root, given.composer, given.lock, given.docs, given.extra)
    /\ StartOfMain

\* lines 43-46 (350-354): the rule list, the instances, fail = False
Construct ==
    /\ pc = "start"
    /\ rules' = Instances(revision, project)
    /\ idx' = 1
    /\ fail' = FALSE
    /\ pc' = "loop"
    /\ UNCHANGED <<revision, given, project, pending, pending_exc, output, actives, checks,
                   exit_code, exc>>
    /\ UNCHANGED docker_vars
    /\ UNCHANGED rerun_vars

\* lines 48-51 (355-358): rule.active(); an inactive rule is skipped
CallActive ==
    /\ pc = "loop"
    /\ idx <= Len(rules)
    /\ LET r == CallActiveResult(revision, rules[idx], project)
       IN  /\ actives' = Append(actives, [rule |-> rules[idx].cls.name, result |-> r])
           /\ pc' = CASE r = "True" -> "check" [] r = "False" -> "loop" [] OTHER -> "raised"
           /\ idx' = IF r = "False" THEN idx + 1 ELSE idx
           /\ exc' = IF r \in {"True", "False"} THEN exc ELSE r
    /\ UNCHANGED <<revision, given, project, rules, pending, pending_exc, fail, output, checks,
                   exit_code>>
    /\ UNCHANGED docker_vars
    /\ UNCHANGED rerun_vars

\* line 54 (360): infos = rule.check()
CallCheck ==
    /\ pc = "check"
    /\ LET r == CallCheckResult(revision, rules[idx], project)
       IN  /\ checks' = Append(checks, [rule |-> rules[idx].cls.name,
                                        infos |-> r.infos, exc |-> r.exc])
           /\ pending' = r.infos
           /\ pending_exc' = r.exc
    /\ pc' = "emit"
    /\ UNCHANGED <<revision, given, project, rules, idx, fail, output, actives, exit_code, exc>>
    /\ UNCHANGED docker_vars
    /\ UNCHANGED rerun_vars

\* a finding equal to one already printed is dropped instead of printed
Emit_dedup ==
    /\ pc = "emit"
    /\ pending # <<>>
    /\ output' = IF \E i \in 1..Len(output) : output[i].info = Head(pending)
                 THEN output
                 ELSE Append(output, [prefix |-> Prefix(Head(pending)),
                                      rule |-> rules[idx].cls.name, info |-> Head(pending)])
    /\ fail' = NextFail(fail, Head(pending))
    /\ pending' = Tail(pending)
    /\ UNCHANGED <<revision, given, project, pc, rules, idx, pending_exc, actives, checks,
                   exit_code, exc>>
    /\ UNCHANGED docker_vars
    /\ UNCHANGED rerun_vars

\* lines 55-62 (361-368): the next finding is printed; an Error sets fail
Emit ==
    /\ pc = "emit"
    /\ pending # <<>>
    /\ output' = Append(output, [prefix |-> Prefix(Head(pending)), rule |-> rules[idx].cls.name,
                                 info |-> Head(pending)])
    /\ fail' = NextFail(fail, Head(pending))
    /\ pending' = Tail(pending)
    /\ UNCHANGED <<revision, given, project, pc, rules, idx, pending_exc, actives, checks,
                   exit_code, exc>>
    /\ UNCHANGED docker_vars
    /\ UNCHANGED rerun_vars

\* the findings of the rule are exhausted: the next rule, or the exception
\* the check ended with leaves main()
EndCheck ==
    /\ pc = "emit"
    /\ pending = <<>>
    /\ IF pending_exc # "none"
       THEN /\ pc' = "raised"
            /\ exc' = pending_exc
            /\ idx' = idx
       ELSE /\ pc' = "loop"
            /\ exc' = exc
            /\ idx' = idx + 1
    /\ pending_exc' = "none"
    /\ UNCHANGED <<revision, given, project, rules, pending, fail, output, actives, checks,
                   exit_code>>
    /\ UNCHANGED docker_vars
    /\ UNCHANGED rerun_vars

\* line 64 (370): return 1 if fail else 0
Return ==
    /\ pc = "loop"
    /\ idx > Len(rules)
    /\ exit_code' = ExitCode(fail)
    /\ pc' = "done"
    /\ UNCHANGED <<revision, given, project, rules, idx, pending, pending_exc, fail, output,
                   actives, checks, exc>>
    /\ UNCHANGED docker_vars
    /\ UNCHANGED rerun_vars

Next == Construct \/ CallActive \/ CallCheck \/ Emit \/ EndCheck \/ Return

Spec == Init /\ [][Next]_vars

(***************************************************************************)
(* Projects of one workflow, for the rules that read workflows.  They run  *)
(* through main() of the one-file revision, the revision whose runner      *)
(* passes the project to the rules.                                        *)
(***************************************************************************)
MaxEvents == 2

Events == {S_push, S_pull_request, S_workflow_dispatch}
Separators == {S_comma, S_comma_sp}

ConfBranches == PyDict(<<Item(PyStr(S_branches), Str1(S_main))>>)
ConfTags == PyDict(<<Item(PyStr(S_tags), Str1(S_v1))>>)
Configs == {EmptyDict, PyNone, ConfBranches, ConfTags}

Distinct(seq) == \A i, j \in 1..Len(seq) : i # j => seq[i] # seq[j]

\* how the workflow spells its triggers: not at all, as a string, as a list, as a
\* mapping, or under the quoted key "on" (a string key, not the boolean)
GivensOn ==
    {[kind |-> "on", spelling |-> sp, events |-> es, sep |-> S_comma, configs |-> <<>>] :
        sp \in {"list", "quoted"}, es \in SeqsOf(Events, 1, MaxEvents)}
    \cup {[kind |-> "on", spelling |-> "str", events |-> es, sep |-> sep, configs |-> <<>>] :
        es \in SeqsOf(Events, 1, MaxEvents), sep \in Separators}
    \cup UNION {{[kind |-> "on", spelling |-> "dict", events |-> es, sep |-> S_comma, configs |-> cs] :
                    cs \in [1..Len(es) -> Configs]} :
                es \in {e \in SeqsOf(Events, 1, MaxEvents) : Distinct(e)}}
    \cup {[kind |-> "on", spelling |-> "absent", events |-> <<>>, sep |-> S_comma, configs |-> <<>>]}

\* the items of the workflow document that spell the triggers
OnItems(g) ==
    CASE g.spelling = "absent" -> <<>>
      [] g.spelling = "str" -> <<Item(PyBool(TRUE), PyStr(Join(g.events, g.sep)))>>
      [] g.spelling = "list" ->
           <<Item(PyBool(TRUE), PyList([i \in 1..Len(g.events) |-> PyStr(g.events[i])]))>>
      [] g.spelling = "dict" ->
           <<Item(PyBool(TRUE),
                  PyDict([i \in 1..Len(g.events) |-> Item(PyStr(g.events[i]), g.configs[i])]))>>
      [] g.spelling = "quoted" ->
           <<Item(PyStr(S_on), PyList([i \in 1..Len(g.events) |-> PyStr(g.events[i])]))>>

PlainJob == <<Item(PyStr(S_runs_on), PyStr(S_ubuntu_24_dot_04))>>
OnPush == <<Item(PyBool(TRUE), PyStr(S_push))>>

OneWorkflow(doc) == MkProject(Root, NoFile, NoFile, <<doc>>, <<>>)

InitOn ==
    /\ revision = "legacy"
    /\ given \in GivensOn
    /\ project = OneWorkflow(Workflow(OnItems(given), S_test, PlainJob))
    /\ StartOfMain

SpecOn == InitOn /\ [][Next]_vars

\* the entries of a php axis of a matrix: version strings, and one version
\* written without quotes, which YAML loads as a float
VersionValues ==
    {PyStr(S_7_dot_4), PyStr(S_8_dot_1_dot_2), PyStr(S_8_dot_2), PyStr(S_8_dot_3),
     PyStr(S_8_dot_4), PyFloat(S_8_dot_2)}

MatrixKeys == {S_php, S_php_version, S_node}

GivensMatrix ==
    [kind : {"matrix"}, key : MatrixKeys, versions : SeqsOf(VersionValues, 1, MaxMatrix)]

InitPHPVersions ==
    /\ revision = "legacy"
    /\ given \in GivensMatrix
    /\ project = OneWorkflow(Workflow(OnPush, S_test,
                                      PlainJob \o <<MatrixItem(given.key, given.versions)>>))
    /\ StartOfMain

SpecPHPVersions == InitPHPVersions /\ [][Next]_vars

\* the steps of a job: run steps, and uses steps whose reference is an action
\* name followed by zero, one or two @tag parts
Tags == {S_v2, S_v4, S_v6}
Actions ==
    {S_actions_sl_checkout, S_actions_sl_cache, S_php_actions_sl_composer,
     S_shivammathur_sl_setup_php, S_actions_sl_setup_node}

StepGivens ==
    {[form |-> "uses", action |-> a, ats |-> ats] :
        a \in Actions, ats \in {<<>>} \cup {<<t>> : t \in Tags}}
    \cup {[form |-> "uses", action |-> S_actions_sl_checkout, ats |-> <<S_v4, S_v4>>],
          [form |-> "uses", action |-> S_actions_sl_checkout, ats |-> << <<>> >>],
          [form |-> "run", action |-> S_composer_sp_install, ats |-> <<>>]}

StepOf(g) ==
    IF g.form = "run" THEN Step_run(g.action)
    ELSE Step_uses(Join(<<g.action>> \o g.ats, S_at))

GivensSteps == [kind : {"steps"}, steps : SeqsOf(StepGivens, 1, MaxSteps)]

InitActionVersions ==
    /\ revision = "legacy"
    /\ given \in GivensSteps
    /\ project = OneWorkflow(Workflow(OnPush, S_build,
                    PlainJob \o <<Item(PyStr(S_steps),
                                       PyList([i \in 1..Len(given.steps) |-> StepOf(given.steps[i])]))>>))
    /\ StartOfMain

SpecActionVersions == InitActionVersions /\ [][Next]_vars

(***************************************************************************)
(* DockerBaseImages on its own: the instance main() builds for the class   *)
(* and the loop body of main() for it (active(), then check()).            *)
(* FileRule.check is a generator, so check_file advances one physical      *)
(* line at a time.                                                         *)
(***************************************************************************)
\* a line of a build file: the instruction word, the flags before the image, the
\* image name, its tag parts (one ":" before each), and the words after the image
Line(kw, flags, pkg, tags, rest) ==
    [kw |-> kw, flags |-> flags, pkg |-> pkg, tags |-> tags, rest |-> rest]

LineGivens ==
    { Line(S_FROM, <<>>, S_python, <<S_3_dot_12_slim>>, <<>>),
      Line(S_FROM, <<>>, S_python, <<S_3_dot_9>>, <<>>),
      Line(S_FROM, <<>>, S_python, <<S_3_dot_12_slim>>, <<S_AS, S_builder>>),
      Line(S_FROM, <<>>, S_builder, <<>>, <<>>),
      Line(S_FROM, <<>>, S_builder, <<>>, <<S_AS, S_builder>>),
      Line(S_FROM, <<>>, S_alpine, <<>>, <<>>),
      Line(S_RUN, <<>>, S_python, <<>>, <<>>),
      Line(S_FROM, <<>>, S_python, <<S_3_dot_12>>, <<S_as_lower, S_builder>>),
      Line(S_FROM, <<>>, S_localhost, <<S_5000_sl_python, S_3_dot_9>>, <<>>),
      Line(S_FROM, <<S_platform>>, S_python, <<S_3_dot_12_slim>>, <<>>),
      Line(S_FROM, <<S_platform>>, S_python, <<S_3_dot_12_slim>>, <<S_AS, S_builder>>) }

\* the image reference of a line: name, and ":" before each tag part
ImageOf(g) == Join(<<g.pkg>> \o g.tags, S_colon)

\* the physical line: the words separated by one space, and the newline
LineText(g) == DockerLineOf(<<g.kw>> \o g.flags \o <<ImageOf(g)>> \o g.rest)

SecondFiles == {<<>>, <<Line(S_FROM, <<>>, S_builder, <<>>, <<>>)>>}

GivensDocker ==
    [kind : {"docker"}, first : SeqsOf(LineGivens, 1, MaxLines), second : SecondFiles]

TextOf(lines) == [i \in 1..Len(lines) |-> LineText(lines[i])]

InitDocker ==
    /\ revision = "package"
    /\ given \in GivensDocker
    /\ project = MkProject(Root, NoFile, NoFile, <<>>,
                    <<File(<<S_Dockerfile>>, 0, TextOf(given.first))>>
                    \o (IF given.second = <<>> THEN <<>>
                        ELSE <<File(<<S_docker, S_Dockerfile>>, 0, TextOf(given.second))>>))
    /\ StartOfMain

DockerClass == SelectSeq(PackageClasses, LAMBDA c : c.name = "DockerBaseImages")[1]

\* DockerBaseImages(project), then rule.active()
DockerConstruct ==
    /\ pc = "start"
    /\ LET rule == [cls |-> DockerClass,
                    relevant_paths |-> relevant_paths_of(project, DockerClass.patterns)]
       IN  /\ rules' = <<rule>>
           /\ actives' = Append(actives, [rule |-> rule.cls.name,
                                          result |-> IF Rule_active(rule) THEN "True" ELSE "False"])
           /\ pc' = IF Rule_active(rule) THEN "next_file" ELSE "checked"
    /\ idx' = 1
    /\ UNCHANGED <<revision, given, project, pending, pending_exc, fail, output, checks,
                   exit_code, exc>>
    /\ UNCHANGED docker_vars
    /\ UNCHANGED rerun_vars

\* FileRule.check: the next relevant path; check_file starts with internal_tags = []
DockerOpen ==
    /\ pc = "next_file"
    /\ fileno < Len(rules[1].relevant_paths)
    /\ fileno' = fileno + 1
    /\ lineno' = 0
    /\ internal_tags' = <<>>
    /\ pc' = "line"
    /\ UNCHANGED <<revision, given, project, yielded>>
    /\ UNCHANGED runner_vars
    /\ UNCHANGED rerun_vars

\* check_file: one physical line
DockerLine ==
    /\ pc = "line"
    /\ LET path  == rules[1].relevant_paths[fileno]
           lines == EntryAt(project, path).content
       IN  /\ lineno < Len(lines)
           /\ LET r == check_line(lines[lineno + 1], internal_tags, PyPath(path))
              IN  /\ internal_tags' = r.tags
                  /\ yielded' = yielded \o [i \in 1..Len(r.infos) |->
                                    [fileno |-> fileno, lineno |-> lineno + 1, info |-> r.infos[i]]]
                  /\ pc' = IF r.exc = "none" THEN "line" ELSE "raised"
                  /\ exc' = r.exc
    /\ lineno' = lineno + 1
    /\ UNCHANGED <<revision, given, project, fileno>>
    /\ UNCHANGED <<rules, idx, pending, pending_exc, fail, output, actives, checks, exit_code>>
    /\ UNCHANGED rerun_vars

\* check_file: the lines are exhausted
DockerClose ==
    /\ pc = "line"
    /\ lineno = Len(EntryAt(project, rules[1].relevant_paths[fileno]).content)
    /\ pc' = "next_file"
    /\ UNCHANGED <<revision, given, project>>
    /\ UNCHANGED runner_vars
    /\ UNCHANGED docker_vars
    /\ UNCHANGED rerun_vars

\* FileRule.check: the relevant paths are exhausted
DockerDone ==
    /\ pc = "next_file"
    /\ fileno = Len(rules[1].relevant_paths)
    /\ pc' = "checked"
    /\ UNCHANGED <<revision, given, project>>
    /\ UNCHANGED runner_vars
    /\ UNCHANGED docker_vars
    /\ UNCHANGED rerun_vars

NextDocker == DockerConstruct \/ DockerOpen \/ DockerLine \/ DockerClose \/ DockerDone

SpecDocker == InitDocker /\ [][NextDocker]_vars


(***************************************************************************)
(* File discovery: main() lines 43-45 build one instance per rule class    *)
(* (Rule.__init__ fills relevant_paths through find_files); the rules that *)
(* inherit Rule.active and FileRule.check are then asked.                  *)
(***************************************************************************)
MaxFiles == 2

\* where the project root is: an ordinary directory, a directory below one
\* named like an ignore-list entry, and a relative path through such a name
Roots == {<<S_home, S_proj>>, <<S_home, S_vendor, S_proj>>, <<S_target, S_proj>>}

\* paths of files below the root
TreePaths ==
    {<<S_Dockerfile>>, <<S_app, S_Dockerfile>>, <<S_vendor, S_app, S_Dockerfile>>,
     <<S_dot_git, S_Dockerfile>>, <<S_package_dot_json>>,
     <<S_app, S_node_modules, S_package_dot_json>>, <<S_notes_dot_txt>>}

\* what a file of that name holds
ContentOf(rel) ==
    CASE rel[Len(rel)] = S_Dockerfile -> <<DockerLineOf(<<S_FROM, S_python \o S_colon \o S_3_dot_9>>)>>
      [] rel[Len(rel)] = S_package_dot_json ->
            PyDict(<<Item(PyStr(S_dependencies),
                          PyDict(<<Item(PyStr(S_react), PyStr(S_caret_17))>>))>>)
      [] OTHER -> PyNone

GivensTree ==
    [kind : {"tree"}, root : Roots,
     files : {s \in SeqsOf(TreePaths, 0, MaxFiles) : \A i, j \in 1..Len(s) : i # j => s[i] # s[j]}]

InitFind ==
    /\ revision = "package"
    /\ given \in GivensTree
    /\ project = [path |-> given.root,
                  files |-> [i \in 1..Len(given.files) |->
                                File(given.files[i], 0, ContentOf(given.files[i]))]]
    /\ StartOfMain

\* the rules after position k that inherit active() and check() from Rule / FileRule
FileRulesAfter(k) == {i \in (k + 1)..Len(rules) : rules[i].cls.file_rule}

\* line 45: r(project) for the next class of get_rules()
FindConstruct ==
    /\ pc \in {"start", "construct"}
    /\ Len(rules) < Len(get_rules)
    /\ LET cls == get_rules[Len(rules) + 1]
       IN  rules' = Append(rules, [cls |-> cls,
                                   relevant_paths |-> relevant_paths_of(project, cls.patterns)])
    /\ pc' = IF Len(rules) + 1 = Len(get_rules) THEN "active" ELSE "construct"
    /\ UNCHANGED <<revision, given, project, idx, pending, pending_exc, fail, output, actives,
                   checks, exit_code, exc>>
    /\ UNCHANGED docker_vars
    /\ UNCHANGED rerun_vars

\* Rule.active() of the next rule that inherits it
FindActive ==
    /\ pc = "active"
    /\ FileRulesAfter(idx) # {}
    /\ LET k == CHOOSE i \in FileRulesAfter(idx) : \A j \in FileRulesAfter(idx) : i <= j
       IN  /\ idx' = k
           /\ actives' = Append(actives, [rule |-> rules[k].cls.name,
                                          result |-> IF Rule_active(rules[k]) THEN "True" ELSE "False"])
           /\ pc' = IF Rule_active(rules[k]) THEN "file_check" ELSE "active"
    /\ UNCHANGED <<revision, given, project, rules, pending, pending_exc, fail, output, checks,
                   exit_code, exc>>
    /\ UNCHANGED docker_vars
    /\ UNCHANGED rerun_vars

\* FileRule.check() of an active rule, run to its end
FindCheck ==
    /\ pc = "file_check"
    /\ LET r == FileRule_check(rules[idx], project)
       IN  checks' = Append(checks, [rule |-> rules[idx].cls.name, infos |-> r.infos, exc |-> r.exc])
    /\ pc' = "active"
    /\ UNCHANGED <<revision, given, project, rules, idx, pending, pending_exc, fail, output,
                   actives, exit_code, exc>>
    /\ UNCHANGED docker_vars
    /\ UNCHANGED rerun_vars

NextFind == FindConstruct \/ FindActive \/ FindCheck

SpecFind == InitFind /\ [][NextFind]_vars

(***************************************************************************)
(* The program run again on the project it has just checked.  Nothing on   *)
(* disk changes between the runs; the order in which the operating system  *)
(* lists a directory (Path.iterdir, Path.rglob) is not fixed by anything,   *)
(* so the next run may see the same files in another order.                *)
(***************************************************************************)
MaxRuns == 2

\* lines 57-62 (363-368): the text of a printed line
PrintedLine(o) ==
    [prefix |-> o.prefix, file |-> o.info.file, position |-> o.info.position,
     message |-> o.info.message]

PrintedLines(out) == [i \in 1..Len(out) |-> PrintedLine(out[i])]

\* the orders a listing of the same entries can come in
Listings(files) ==
    {[i \in 1..Len(files) |-> files[p[i]]] :
        p \in {q \in [1..Len(files) -> 1..Len(files)] :
                  \A i, j \in 1..Len(files) : i # j => q[i] # q[j]}}

GivensRerun == [kind : {"rerun"}, docs : SeqsOf(WorkflowDocs, 0, MaxWorkflows)]

InitRerun ==
    /\ revision \in Revisions
    /\ given \in GivensRerun
    /\ project = MkProject(Root, NoFile, NoFile, given.docs, <<>>)
    /\ StartOfMain

\* main() has ended (returned, or was left by an exception); the program is
\* started again on the same project
Rerun ==
    /\ pc \in {"done", "raised"}
    /\ run < MaxRuns
    /\ run' = run + 1
    /\ previous' = Append(previous, [output |-> PrintedLines(output),
                                     exit_code |-> exit_code, exc |-> exc])
    /\ project' \in {[path |-> project.path, files |-> l] : l \in Listings(project.files)}
    /\ pc' = "start"
    /\ rules' = <<>> /\ idx' = 0
    /\ pending' = <<>> /\ pending_exc' = "none"
    /\ fail' = FALSE /\ output' = <<>>
    /\ actives' = <<>> /\ checks' = <<>>
    /\ exit_code' = -1 /\ exc' = "none"
    /\ UNCHANGED <<revision, given>>
    /\ UNCHANGED docker_vars

NextRerun == Next \/ Rerun

SpecRerun == InitRerun /\ [][NextRerun]_vars

(***************************************************************************)
(* GithubActionsVendoredPHPTools through the runner of src/projectlint.py: *)
(* a manifest with dev tools, and workflows of jobs of steps in which each *)
(* tool is invoked at one place or nowhere.                                *)
(***************************************************************************)
MaxJobs == 2

\* dev tools, and a run command that invokes each
DevTools == {S_phpunit_sl_phpunit, S_phpstan_sl_phpstan}

Invocation(tool) == IF tool = S_phpunit_sl_phpunit THEN S_vendor_sl_bin_sl_phpunit ELSE S_phpstan

\* where a tool is invoked: workflow, job and step, or nowhere
Places ==
    {<<>>} \cup {<<w, j, s>> : w \in 1..MaxWorkflows, j \in 1..MaxJobs, s \in 1..MaxSteps}

GivensVendored ==
    [kind : {"vendored"},
     tools : {s \in SeqsOf(DevTools, 0, Cardinality(DevTools)) :
                 \A i, j \in 1..Len(s) : i # j => s[i] # s[j]},
     place : [DevTools -> Places]]

\* the step at a place: it runs the tools invoked there; with none, the first
\* step of a job is a uses step and the others run composer install
StepAt(g, place) ==
    LET here == {t \in DevTools : g.place[t] = place}
    IN  IF here = {}
        THEN IF place[3] = 1 THEN Step_uses(S_actions_sl_checkout \o S_at \o S_v4)
             ELSE Step_run(S_composer_sp_install)
        ELSE IF here = DevTools
        THEN Step_run(Invocation(S_phpunit_sl_phpunit) \o S_sp \o Invocation(S_phpstan_sl_phpstan))
        ELSE Step_run(Invocation(CHOOSE t \in here : TRUE))

JobName(j) == IF j = 1 THEN S_test ELSE S_build \o IntStr(j)

WorkflowAt(g, w) ==
    PyDict(OnPush \o
        <<Item(PyStr(S_jobs),
               PyDict([j \in 1..MaxJobs |->
                   Item(PyStr(JobName(j)),
                        PyDict(PlainJob \o
                            <<Item(PyStr(S_steps),
                                   PyList([s \in 1..MaxSteps |-> StepAt(g, <<w, j, s>>)]))>>))]))>>)

ComposerWith(tools) ==
    PyDict(<<Item(PyStr(S_require), PyDict(<<Item(PyStr(S_php), PyStr(S_caret_8_dot_2))>>)),
             Item(PyStr(S_require_dev),
                  PyDict([i \in 1..Len(tools) |-> Item(PyStr(tools[i]), PyStr(S_caret_11_dot_0))]))>>)

InitVendored ==
    /\ revision = "legacy"
    /\ given \in GivensVendored
    /\ project = MkProject(Root, SomeFile(0, ComposerWith(given.tools)), NoFile,
                           [w \in 1..MaxWorkflows |-> WorkflowAt(given, w)], <<>>)
    /\ StartOfMain

SpecVendored == InitVendored /\ [][Next]_vars

(***************************************************************************)
(* The runner on projects whose rules yield several findings each, equal   *)
(* findings among them.                                                    *)
(***************************************************************************)
\* on: [push, pull_request]; ubuntu-latest; php: ["7.4", "7.4", "8.2"]
WfDup ==
    Workflow(<<Item(PyBool(TRUE), PyList(<<PyStr(S_push), PyStr(S_pull_request)>>))>>,
             S_test,
             <<Item(PyStr(S_runs_on), PyStr(S_ubuntu_latest)),
               MatrixItem(S_php, <<PyStr(S_7_dot_4), PyStr(S_7_dot_4), PyStr(S_8_dot_2)>>)>>)

GivensEmit ==
    [kind : {"emit"},
     composer : {NoFile, SomeFile(0, ComposerGood)},
     docs : SeqsOf({WfDup, WfClean, WfOverlap}, 0, MaxWorkflows)]

InitEmit ==
    /\ revision \in Revisions
    /\ given \in GivensEmit
    /\ project = MkProject(Root, given.composer, NoFile, given.docs, <<>>)
    /\ StartOfMain

SpecEmit == InitEmit /\ [][Next]_vars
(***************************************************************************)
(* Properties.                                                             *)
(***************************************************************************)
\* the findings the checks have produced so far
Produced == Flatten([k \in 1..Len(checks) |-> checks[k].infos])

\* number of elements of a sequence that satisfy a predicate
Count(seq, P(_)) == Cardinality({i \in 1..Len(seq) : P(seq[i])})

IsError(info) == info.cls = "ProjectError"
IsWarning(info) == info.cls = "ProjectWarning"
IsPlainInfo(info) == info.cls = "ProjectInfo"

\* C1: when main() returns, the exit code is 1 if some finding the rules produced
\* is a ProjectError and 0 if none is (warnings and infos do not count), and a
\* step never takes the fail flag from True back to False.
C1_ExitCodeIffError ==
    /\ [](pc = "done" =>
            exit_code = IF \E i \in 1..Len(Produced) : IsError(Produced[i]) THEN 1 ELSE 0)
    /\ [][fail => fail']_vars

\* C1 witness: main() returned 1 after printing an Error and, later, a line that
\* is not an Error.
C1_Witness ==
    /\ pc = "done" /\ exit_code = 1
    /\ \E i, j \in 1..Len(output) :
          i < j /\ output[i].prefix = "Error" /\ output[j].prefix \in {"Warning", "Info"}

\* C2: in the package revision, a rule whose relevant_paths is empty gets False
\* from the runner's call of active(), has check() never called, and prints nothing.
C2_EmptyRelevantSetSkipped ==
    revision = "package" =>
        \A k \in 1..Len(actives) :
            rules[k].relevant_paths = <<>> =>
                /\ actives[k].result = "False"
                /\ \A c \in 1..Len(checks) : checks[c].rule # rules[k].cls.name
                /\ \A o \in 1..Len(output) : output[o].rule # rules[k].cls.name

\* C3: main() is never left by an exception (every document of the projects is
\* well-formed YAML or JSON).
C3_NoException == pc # "raised" /\ exc = "none"

\* C4: PHPComposerLock.check on a project that has both composer.json and
\* composer.lock returns exactly one ProjectError, whose file is the lockfile,
\* when the manifest's mtime is greater than the lockfile's, and nothing when the
\* two are equal or the lockfile is newer.
C4_LockfileFreshness ==
    \A k \in 1..Len(checks) :
        (checks[k].rule = "PHPComposerLock" /\ given.composer.present /\ given.lock.present) =>
            /\ checks[k].exc = "none"
            /\ IF given.composer.mtime > given.lock.mtime
               THEN /\ Len(checks[k].infos) = 1
                    /\ IsError(checks[k].infos[1])
                    /\ checks[k].infos[1].file = PyPath(Root \o <<S_composer_dot_lock>>)
               ELSE checks[k].infos = <<>>

\* C4 witness: the check ran on a stale lockfile and its Error was printed.
C4_Witness ==
    /\ given.composer.present /\ given.lock.present
    /\ given.composer.mtime > given.lock.mtime
    /\ \E o \in 1..Len(output) : output[o].rule = "PHPComposerLock" /\ output[o].prefix = "Error"

\* the outcome of the first call of check() on the named rule
CheckOf(rule) == checks[CHOOSE k \in 1..Len(checks) : checks[k].rule = rule]
Checked(rule) == \E k \in 1..Len(checks) : checks[k].rule = rule

TheWorkflowPath == PyPath(Root \o <<S_dot_github, S_workflows, IntStr(1) \o S_dot_yml>>)

\* the workflow as given is triggered by push and by pull_request, and its push
\* trigger has no branches filter
GivenOverlap ==
    /\ given.spelling \in {"str", "list", "dict"}
    /\ S_push \in Range(given.events)
    /\ S_pull_request \in Range(given.events)
    /\ ~(/\ given.spelling = "dict"
         /\ \E i \in 1..Len(given.events) :
               given.events[i] = S_push /\ given.configs[i] = ConfBranches)

\* C5: GithubActionsOn.check reads the triggers under the key True; whether they
\* are spelled as a comma-separated string, a list or a mapping, it returns exactly
\* one ProjectError for the workflow if the triggers hold both push and
\* pull_request and push has no branches filter, and nothing otherwise.
C5_TriggerOverlap ==
    Checked("GithubActionsOn") =>
        /\ CheckOf("GithubActionsOn").exc = "none"
        /\ IF GivenOverlap
           THEN /\ Len(CheckOf("GithubActionsOn").infos) = 1
                /\ IsError(CheckOf("GithubActionsOn").infos[1])
                /\ CheckOf("GithubActionsOn").infos[1].file = TheWorkflowPath
           ELSE CheckOf("GithubActionsOn").infos = <<>>

\* C5 witness: the triggers were given as the string "push, pull_request" and the
\* Error was returned.
C5_Witness ==
    /\ given.spelling = "str" /\ given.sep = S_comma_sp
    /\ given.events = <<S_push, S_pull_request>>
    /\ Checked("GithubActionsOn")
    /\ Len(CheckOf("GithubActionsOn").infos) = 1

\* the axis as given is one the rule examines and no entry of it is a float
GivenPHPAxis ==
    /\ StartsWith(given.key, S_php)
    /\ \A i \in 1..Len(given.versions) : given.versions[i].t = "str"
    /\ \E i \in 1..Len(given.versions) : Head(given.versions[i].v) = "8"

GivenEntries(P(_)) == Cardinality({i \in 1..Len(given.versions) : P(given.versions[i].v)})
Has(infos, cls, fmt, arg) ==
    Cardinality({i \in 1..Len(infos) :
        infos[i].cls = cls /\ infos[i].message.fmt = fmt /\ infos[i].message.args = <<arg>>})

IsDeprecatedVersion(v) == StartsWith(v, S_7) \/ StartsWith(v, S_8_dot_0) \/ StartsWith(v, S_8_dot_1)
GivenHas(v) == \E i \in 1..Len(given.versions) : given.versions[i] = PyStr(v)
Missing(vs) == Cardinality({v \in vs : ~GivenHas(v)})

\* C6: for a matrix axis whose key starts with php and that holds a version
\* starting with "8", GithubActionsPHPVersions.check returns one ProjectError per
\* entry that starts with 7, 8.0 or 8.1, one ProjectError per version of 8.2, 8.3
\* that is not an entry, one plain ProjectInfo for 8.4 when it is not an entry,
\* and nothing else; ["7.4", "8.2", "8.3"] gives exactly one Error, for 7.4.
C6_MatrixCoverage ==
    (Checked("GithubActionsPHPVersions") /\ GivenPHPAxis) =>
        LET r == CheckOf("GithubActionsPHPVersions")
        IN  /\ r.exc = "none"
            /\ \A v \in {x.v : x \in VersionValues} :
                  Has(r.infos, "ProjectError", "PHP {version} is deprecated", v)
                    = IF IsDeprecatedVersion(v) THEN GivenEntries(LAMBDA e : e = v) ELSE 0
            /\ \A s \in {S_8_dot_2, S_8_dot_3} :
                  Has(r.infos, "ProjectError", "PHP {stable} is not tested", s)
                    = IF GivenHas(s) THEN 0 ELSE 1
            /\ Has(r.infos, "ProjectInfo", "PHP {unstable} is not tested", S_8_dot_4)
                    = IF GivenHas(S_8_dot_4) THEN 0 ELSE 1
            /\ Len(r.infos) = GivenEntries(IsDeprecatedVersion)
                              + Missing({S_8_dot_2, S_8_dot_3}) + Missing({S_8_dot_4})
            /\ Count(r.infos, IsError) = GivenEntries(IsDeprecatedVersion)
                                         + Missing({S_8_dot_2, S_8_dot_3})
            /\ given.versions = <<PyStr(S_7_dot_4), PyStr(S_8_dot_2), PyStr(S_8_dot_3)>> =>
                  /\ Count(r.infos, IsError) = 1
                  /\ r.infos[1].message.args = <<S_7_dot_4>>

\* C6 witness: the check ran on php: ["7.4", "8.2", "8.3"].
C6_Witness ==
    /\ given.key = S_php
    /\ given.versions = <<PyStr(S_7_dot_4), PyStr(S_8_dot_2), PyStr(S_8_dot_3)>>
    /\ Checked("GithubActionsPHPVersions")
    /\ \E o \in 1..Len(output) : output[o].rule = "GithubActionsPHPVersions"

GivenSinglePHPEntry ==
    /\ StartsWith(given.key, S_php)
    /\ Len(given.versions) = 1
    /\ given.versions[1].t = "str"

ExpectedTag(action) ==
    CASE action = S_actions_sl_checkout -> S_v4
      [] action = S_actions_sl_cache -> S_v4
      [] action = S_php_actions_sl_composer -> S_v6
      [] action = S_shivammathur_sl_setup_php -> S_v2

AllowListed(action) ==
    action \in {S_actions_sl_checkout, S_actions_sl_cache, S_php_actions_sl_composer,
                S_shivammathur_sl_setup_php}

\* the given step names an allow-listed action without a tag or with another tag
\* than the expected one
Offending(g) ==
    /\ g.form = "uses"
    /\ AllowListed(g.action)
    /\ (g.ats = <<>> \/ g.ats[1] # ExpectedTag(g.action))

StepPosition(n) == PyStr(S_jobs_dot \o S_build \o S_dot_steps_lb \o IntStr(n - 1) \o S_rb_dot_uses)

\* C8: for a job whose uses references hold at most one "@",
\* GithubActionsActionVersions.check returns exactly one ProjectError for each step
\* that names an allow-listed action without a tag or with a tag other than the
\* expected one, and nothing for a step with the expected tag, with an action
\* outside the allow-list, or without uses.
C8_ActionPinning ==
    (Checked("GithubActionsActionVersions")
        /\ \A n \in 1..Len(given.steps) : Len(given.steps[n].ats) <= 1) =>
        LET r == CheckOf("GithubActionsActionVersions")
        IN  /\ r.exc = "none"
            /\ \A i \in 1..Len(r.infos) : IsError(r.infos[i])
            /\ \A n \in 1..Len(given.steps) :
                  Cardinality({i \in 1..Len(r.infos) : r.infos[i].position = StepPosition(n)})
                    = IF Offending(given.steps[n]) THEN 1 ELSE 0
            /\ Len(r.infos) = Cardinality({n \in 1..Len(given.steps) : Offending(given.steps[n])})

\* C8 witness: the check ran on a job whose steps use actions/checkout@v4 and
\* actions/cache without a tag, and returned the one Error for the second step.
C8_Witness ==
    /\ given.steps = <<[form |-> "uses", action |-> S_actions_sl_checkout, ats |-> <<S_v4>>],
                       [form |-> "uses", action |-> S_actions_sl_cache, ats |-> <<>>]>>
    /\ Checked("GithubActionsActionVersions")
    /\ Len(CheckOf("GithubActionsActionVersions").infos) = 1
    /\ CheckOf("GithubActionsActionVersions").infos[1].position = StepPosition(2)

\* the lines given for the relevant path f (the paths are found in directory order)
GivenFile(f) == IF f = 1 THEN given.first ELSE given.second

\* line n of file f has been read, and reading it raised nothing
Read(f, n) ==
    /\ \/ f < fileno
       \/ f = fileno /\ n <= lineno
    /\ ~(pc = "raised" /\ f = fileno /\ n = lineno)

\* the findings yielded for line n of file f
YieldedFor(f, n) == {i \in 1..Len(yielded) : yielded[i].fileno = f /\ yielded[i].lineno = n}

\* the name is introduced by "AS <name>" on a FROM line before line n of file f
IntroducedBefore(name, f, n) ==
    \E m \in 1..(n - 1) :
        /\ GivenFile(f)[m].kw = S_FROM
        /\ GivenFile(f)[m].rest = <<S_AS, name>>

WellKnownPrefixes(pkg) ==
    CASE pkg = S_python -> {S_3_dot_12}
      [] pkg = S_debian -> {S_bookworm, S_stable}
      [] pkg = S_ubuntu -> {S_24_dot_04, S_noble}
      [] OTHER -> {}

\* the tag of an image reference: what follows its last ":"
TagOf(g) == g.tags[Len(g.tags)]

\* what the base-image policy asks of a line: the number of Errors
PolicyErrors(f, n) ==
    LET g == GivenFile(f)[n]
    IN  IF g.kw # S_FROM THEN 0
        ELSE IF g.tags = <<>>
        THEN IF IntroducedBefore(g.pkg, f, n) THEN 0 ELSE 1
        ELSE IF Len(g.tags) = 1 /\ WellKnownPrefixes(g.pkg) # {}
                /\ \A p \in WellKnownPrefixes(g.pkg) : ~StartsWith(TagOf(g), p)
        THEN 1
        ELSE 0

\* C9: every line that has been read has yielded what the policy asks: one
\* ProjectError for a FROM line whose image has no tag and is no stage name
\* introduced before, one for a well-known image whose tag starts with no accepted
\* prefix, and nothing otherwise (nothing at all for a line that is not a FROM line).
C9_BaseImagePolicy ==
    \A f \in 1..fileno : \A n \in 1..Len(GivenFile(f)) :
        Read(f, n) =>
            /\ Cardinality(YieldedFor(f, n)) = PolicyErrors(f, n)
            /\ \A i \in YieldedFor(f, n) : IsError(yielded[i].info)

\* C10: an untagged FROM image that has been read yielded nothing if and only if
\* its name was introduced by "AS <name>" on an earlier FROM line of the same file.
C10_StageTracking ==
    \A f \in 1..fileno : \A n \in 1..Len(GivenFile(f)) :
        (/\ Read(f, n)
         /\ GivenFile(f)[n].kw = S_FROM
         /\ GivenFile(f)[n].tags = <<>>) =>
            (YieldedFor(f, n) = {} <=> IntroducedBefore(GivenFile(f)[n].pkg, f, n))


\* the files of the given tree whose name is one of the patterns
GivenMatches(patterns) ==
    {rel \in Range(given.files) : rel[Len(rel)] \in Range(patterns)}

HasIgnoredSegment(path) == \E i \in 1..Len(path) : path[i] \in Range(IGNORE_PATHS)

NoDuplicates(seq) == \A i, j \in 1..Len(seq) : i # j => seq[i] # seq[j]

\* C11: the relevant set a rule gets at construction holds each file of the tree
\* that matches one of the rule's patterns and whose path (as find_files returns
\* it: the root followed by the segments below it) has no segment in the
\* ignore-list, holds no path with an ignored segment, holds each path once, and
\* is empty (with nothing raised) when nothing matches.
C11_RelevantSet ==
    /\ exc = "none"
    /\ \A k \in 1..Len(rules) :
        /\ NoDuplicates(rules[k].relevant_paths)
        /\ Range(rules[k].relevant_paths) =
              {given.root \o rel : rel \in {m \in GivenMatches(rules[k].cls.patterns) :
                                               ~HasIgnoredSegment(given.root \o m)}}

\* C11 witness: DockerBaseImages was constructed on a tree holding app/Dockerfile
\* and vendor/app/Dockerfile, and its relevant set is the first of the two.
C11_Witness ==
    /\ given.root = <<S_home, S_proj>>
    /\ Range(given.files) = {<<S_app, S_Dockerfile>>, <<S_vendor, S_app, S_Dockerfile>>}
    /\ \E k \in 1..Len(rules) :
          /\ rules[k].cls.name = "DockerBaseImages"
          /\ rules[k].relevant_paths = <<given.root \o <<S_app, S_Dockerfile>> >>

\* C17: what discovery keeps depends on the segments below the project root
\* only: wherever the root is, the relevant set of a rule is the matching files
\* with no ignored segment below the root, a rule with such a file is active,
\* and its check yields the findings of those files.
C17_RootIndependent ==
    /\ \A k \in 1..Len(rules) :
          Range(rules[k].relevant_paths) =
              {given.root \o rel : rel \in {m \in GivenMatches(rules[k].cls.patterns) :
                                               ~HasIgnoredSegment(m)}}
    /\ \A a \in 1..Len(actives) :
          LET cls == SelectSeq(get_rules, LAMBDA c : c.name = actives[a].rule)[1]
          IN  actives[a].result = "True" <=>
                  \E m \in GivenMatches(cls.patterns) : ~HasIgnoredSegment(m)

\* C12: a run that has ended has printed the same lines, in the same order, as
\* every earlier run on the project, and has ended with the same exit code.
C12_Determinism ==
    pc \in {"done", "raised"} =>
        \A r \in 1..Len(previous) :
            /\ PrintedLines(output) = previous[r].output
            /\ exit_code = previous[r].exit_code

\* C13: on a project that has composer.lock but no composer.json the runner's
\* call of PHPComposerLock.active() gives False, check() is not called on the
\* rule, and the rule prints nothing and raises nothing.
C13_LockWithoutManifest ==
    (given.lock.present /\ ~given.composer.present) =>
        /\ \A a \in 1..Len(actives) :
              actives[a].rule = "PHPComposerLock" => actives[a].result = "False"
        /\ \A c \in 1..Len(checks) : checks[c].rule # "PHPComposerLock"
        /\ \A o \in 1..Len(output) : output[o].rule # "PHPComposerLock"

\* the dev tools of the given manifest that are invoked nowhere, in manifest order
GivenUnused == SelectSeq(given.tools, LAMBDA t : given.place[t] = <<>>)

\* C14: on a project with workflows and a manifest the check of
\* GithubActionsVendoredPHPTools returns exactly one ProjectWarning for each dev
\* tool of the manifest that no step of any job of any workflow invokes, at
\* require-dev.<tool> of composer.json, and nothing for a tool that is invoked,
\* whichever workflow, job and step invokes it.
C14_VendoredToolUsage ==
    \A k \in 1..Len(checks) :
        checks[k].rule = "GithubActionsVendoredPHPTools" =>
            /\ checks[k].exc = "none"
            /\ Len(checks[k].infos) = Len(GivenUnused)
            /\ \A i \in 1..Len(GivenUnused) :
                  /\ IsWarning(checks[k].infos[i])
                  /\ checks[k].infos[i].file = PyPath(Root \o <<S_composer_dot_json>>)
                  /\ checks[k].infos[i].position = PyStr(S_require_dev_dot \o GivenUnused[i])

\* C14 witness: the manifest names phpunit and phpstan, only phpstan is invoked,
\* in the last step of the last job of the last workflow, and the check returned
\* the one Warning for phpunit.
C14_Witness ==
    /\ given.tools = <<S_phpunit_sl_phpunit, S_phpstan_sl_phpstan>>
    /\ given.place[S_phpunit_sl_phpunit] = <<>>
    /\ given.place[S_phpstan_sl_phpstan] = <<MaxWorkflows, MaxJobs, MaxSteps>>
    /\ \E k \in 1..Len(checks) :
          /\ checks[k].rule = "GithubActionsVendoredPHPTools"
          /\ Len(checks[k].infos) = 1
          /\ checks[k].infos[1].position = PyStr(S_require_dev_dot \o S_phpunit_sl_phpunit)

\* the rule that produced each finding of Produced
ProducedBy ==
    Flatten([k \in 1..Len(checks) |-> [i \in 1..Len(checks[k].infos) |-> checks[k].rule]])

\* position of a rule in the runner's rule list
RulePosition(name) == CHOOSE i \in 1..Len(rules) : rules[i].cls.name = name

\* the findings printed, and those of the running check still to be printed, are
\* the findings the checks produced, in the order they produced them
EmittedInOrder ==
    /\ [i \in 1..Len(output) |-> output[i].info] \o (IF pc = "emit" THEN pending ELSE <<>>)
          = Produced
    /\ \A i \in 1..Len(output) : output[i].rule = ProducedBy[i]
    /\ \A k, l \in 1..Len(checks) :
          k < l => RulePosition(checks[k].rule) < RulePosition(checks[l].rule)
    /\ \A a \in 1..Len(actives) :
          actives[a].result # "True" =>
              \A o \in 1..Len(output) : output[o].rule # actives[a].rule
    /\ pc = "done" => Len(output) = Len(Produced)

\* C15: at every moment the printed lines are, one line per finding and in
\* order, the findings the active rules' checks have yielded so far, rule after
\* rule in rule-list order, with nothing printed for a rule that is not active;
\* equal findings are each printed; and a step only ever adds one line at the end.
C15_EmitAllInOrder ==
    /\ []EmittedInOrder
    /\ [][output' = output \/ (Len(output') = Len(output) + 1
                               /\ SubSeq(output', 1, Len(output)) = output)]_vars

\* C15 witness: main() returned after printing lines of two different rules and
\* two lines that are equal.
C15_Witness ==
    /\ pc = "done"
    /\ \E i, j \in 1..Len(output) : output[i].rule # output[j].rule
    /\ \E i, j \in 1..Len(output) :
          i # j /\ PrintedLine(output[i]) = PrintedLine(output[j])

\* the rule classes of the revision that can be instantiated (FileRule leaves
\* check_file abstract)
ConcreteNames ==
    IF revision = "legacy"
    THEN {LegacyClasses[i].name : i \in 1..Len(LegacyClasses)}
    ELSE {PackageClasses[i].name : i \in 1..Len(PackageClasses)} \ {"FileRule"}

\* C16: once main() has built its rules, the list holds one instance of each
\* concrete rule class, each class once, and no abstract base; and when the run
\* has ended, active() has been called exactly once on each rule of the list.
C16_RuleRegistry ==
    /\ pc # "start" =>
          /\ {rules[i].cls.name : i \in 1..Len(rules)} = ConcreteNames
          /\ \A i, j \in 1..Len(rules) : i # j => rules[i].cls.name # rules[j].cls.name
    /\ pc \in {"done", "raised"} =>
          \A i \in 1..Len(rules) :
              Cardinality({a \in 1..Len(actives) : actives[a].rule = rules[i].cls.name}) = 1
====
